---- MODULE Spec2Model ----
(***************************************************************************)
(* Model of the candidate admission / approval-state pipeline of the       *)
(* Reddit agent: the durable draft queue with its status state machine and *)
(* approval tokens (services/state_manager.py), the replay ledger with its *)
(* cooldowns, the publisher (services/poster.py), the approval callback    *)
(* surface (api/callback_server.py) and the risk governor of the upstream  *)
(* client (services/reddit_client.py).                                     *)
(*                                                                         *)
(* Time is the wall clock in minutes.  Risk values are in percent.         *)
(***************************************************************************)
EXTENDS Integers, Sequences, FiniteSets, TLC

(***************************************************************************)
(* Bounds of the model                                                     *)
(***************************************************************************)
MaxTokens == 3
MaxRequests == 4
max_daily == 2
MaxCandidates == 3

(***************************************************************************)
(* Program constants                                                       *)
(***************************************************************************)
MinutesPerHour == 60
TOKEN_TTL_HOURS == 48
cooldown_hours == 24
inbox_cooldown_hours == 6
MIN_TOKEN_LENGTH == 20
TOKEN_URLSAFE_LENGTH == 43
DEFAULT_RISK_THRESHOLD == 70
error_403_weight == 60
empty_listing_weight == 40
INITIAL_RATE_LIMIT == 100
\* scores and score thresholds are in thousandths
ScoreScale == 1000
max_per_subreddit == 2
diversity_quality_boost_threshold == 750
max_comments_per_run == 3
engagement_check_delay_hours == 24
\* post_reply_ratio in percent
post_reply_ratio == 30
max_post_replies_per_run == 1
max_comment_replies_per_run == 2
score_top_n_random == 5
min_length == 20
max_length == 2000
max_retries == 3
max_age_hours == 24

(***************************************************************************)
(* Small input sets                                                        *)
(***************************************************************************)
\* uuid4 values, in the order in which the generator draws them
DraftIdOrder == <<"d1", "d2", "d3">>
DraftIds == {DraftIdOrder[i] : i \in 1..Len(DraftIdOrder)}
InboxIds == {"r_inbox"}
RisingIds == {"r_rising"}
RedditIds == InboxIds \cup RisingIds
\* rising posts and the remaining rising comment a workflow run can meet
PostIds == {"p_a", "p_b"}
LedgerIds == RedditIds \cup PostIds \cup {"c_b"}
Contents == {"c1", "c2"}
\* the content the generator wrote for each draft
ContentOf == [d \in DraftIds |-> IF d = "d1" THEN "c1" ELSE "c2"]
Subreddits == {"sub_a", "sub_b"}
allowed_subreddits == <<"sub_a", "sub_b">>
Thresholds == {50, 70}
NotCached == -1
Statuses == {"PENDING", "APPROVED", "REJECTED", "PUBLISHED"}
StatusInputs == Statuses \cup {"BOGUS"}
ReplyStatuses == {"SUCCESS", "FAILED", "SKIPPED"}
CandidateTypes == {"post", "comment"}

\* The instants at which the wall clock is observed (minutes): around the
\* token validity window for the approval flow, around the two cooldowns for
\* the replay ledger.
TokenInstants == {0, 2880, 2881}
CooldownInstants == {0, 10, 359, 361, 1439, 1440, 1441, 1500}
Instants == TokenInstants \cup CooldownInstants
Day(t) == t \div (24 * MinutesPerHour)
Days == {Day(t) : t \in Instants}

\* Plaintext tokens.  1..MaxTokens are the values token_urlsafe can draw;
\* EmptyToken and ShortToken are malformed inputs, ForgedToken is a
\* well-formed token that was never issued.
Tokens == 1..MaxTokens
EmptyToken == 0
ShortToken == -1
ForgedToken == MaxTokens + 1
TokenInputs == Tokens \cup {EmptyToken, ShortToken, ForgedToken}
token_len(token) ==
    IF token = EmptyToken THEN 0
    ELSE IF token = ShortToken THEN 10
    ELSE TOKEN_URLSAFE_LENGTH

NULL == <<>>
NoTime == -1
None == "None"
Bool(b) == IF b THEN "True" ELSE "False"

VARIABLES
    now,                 \* wall clock, minutes
    draft_queue,         \* draft_id -> row of draft_queue, or NULL
    replied_items,       \* reddit_id -> row of replied_items, or NULL
    daily_stats,         \* day -> comment_count (0 when the row is absent)
    performance_history, \* draft_id -> outcome, or None
    engagement,          \* draft_id -> engagement columns of the
                         \* performance_history row, or NULL
    generator,           \* DraftGenerator and the outcome of its last call
    rule_engine,         \* RuleEngine: its fetch function and its RuleCache
    publishers,          \* position of each publisher inside publish_single,
                         \* and the comments they have posted upstream
    client,              \* RedditClient fields
    background_tasks,    \* drafts handed to _publish_draft_async, not yet run
    ret,                 \* outcome of the last operation
    run,                 \* AgentState and position of the workflow run
    settings             \* the Settings the run was started with

vars == <<now, draft_queue, replied_items, daily_stats, performance_history,
          engagement, generator, rule_engine, publishers, client,
          background_tasks, ret, run, settings>>

agents == <<generator, rule_engine, publishers>>

pipeline == <<run, settings>>

dbvars == <<draft_queue, replied_items, daily_stats, performance_history>>

(***************************************************************************)
(* services/state_manager.py                                               *)
(***************************************************************************)
\* a transition table in which REJECTED can be approved after all
ALLOWED_TRANSITIONS_reopening ==
    [s \in Statuses |->
        CASE s = "PENDING" -> {"APPROVED", "REJECTED"}
          [] s = "APPROVED" -> {"PUBLISHED"}
          [] s = "REJECTED" -> {"APPROVED"}
          [] s = "PUBLISHED" -> {}]

ALLOWED_TRANSITIONS ==
    [s \in Statuses |->
        CASE s = "PENDING" -> {"APPROVED", "REJECTED"}
          [] s = "APPROVED" -> {"PUBLISHED"}
          [] s = "REJECTED" -> {}
          [] s = "PUBLISHED" -> {}]

\* dict.get(old_status, set())
AllowedFrom(old_status) ==
    IF old_status \in DOMAIN ALLOWED_TRANSITIONS
    THEN ALLOWED_TRANSITIONS[old_status] ELSE {}

\* SHA-256 of the plaintext: a deterministic, collision-free digest that is
\* different from its input.
hash_token(token) == <<"sha256", token>>

ExistingDrafts == {d \in DraftIds : draft_queue[d] # NULL}

\* tokens that token_urlsafe has already produced for a stored draft
UsedTokens == {draft_queue[d].approve_url : d \in ExistingDrafts}

\* a schema without the UNIQUE(reddit_id) constraint
IntegrityError_primary_key_only(draft_id, reddit_id) ==
    draft_queue[draft_id] # NULL

\* the UNIQUE(reddit_id) and PRIMARY KEY(draft_id) constraints
IntegrityError(draft_id, reddit_id) ==
    \/ draft_queue[draft_id] # NULL
    \/ \E d \in ExistingDrafts : draft_queue[d].reddit_id = reddit_id

NewDraft(reddit_id, content, status, token) ==
    [reddit_id |-> reddit_id,
     content |-> content,
     status |-> status,
     created_at |-> now,
     approved_at |-> NoTime,
     approval_token_hash |-> hash_token(token),
     approve_url |-> token,
     comment_id |-> None,
     published_at |-> NoTime,
     engagement_checked |-> FALSE]

\* StateManager.save_draft
save_draft(draft_id, reddit_id, content, token) ==
    IF IntegrityError(draft_id, reddit_id)
    THEN /\ draft_queue' = draft_queue
         /\ ret' = [op |-> "save_draft", val |-> None, upstream |-> 0,
                    token |-> EmptyToken, draft_id |-> draft_id,
                    reddit_id |-> reddit_id]
    ELSE /\ draft_queue' =
                [draft_queue EXCEPT ![draft_id] =
                    NewDraft(reddit_id, content, "PENDING", token)]
         /\ ret' = [op |-> "save_draft", val |-> "token", upstream |-> 0,
                    token |-> token, draft_id |-> draft_id,
                    reddit_id |-> reddit_id]

\* secrets.token_urlsafe draws a value that no stored draft carries; the
\* values are interchangeable, so the draw is the least unused one
token_urlsafe == CHOOSE t \in Tokens \ UsedTokens :
                    \A u \in Tokens \ UsedTokens : t <= u

\* uuid.uuid4() of the generator: an id that no stored draft carries; the
\* ids are interchangeable, so the draw is the first unused one
UnusedDraftIds == {i \in 1..Len(DraftIdOrder) : draft_queue[DraftIdOrder[i]] = NULL}
uuid4 == DraftIdOrder[CHOOSE i \in UnusedDraftIds : \A j \in UnusedDraftIds : i <= j]

\* notify_human_node saves the generated draft with the default status
SaveDraft ==
    \E reddit_id \in RedditIds :
        /\ Tokens \ UsedTokens # {}
        /\ UnusedDraftIds # {}
        /\ save_draft(uuid4, reddit_id, ContentOf[uuid4], token_urlsafe)
        /\ UNCHANGED <<agents, engagement, pipeline, now, replied_items, daily_stats, performance_history,
                       client, background_tasks>>

\* a transition that leaves the stored token hash in place
TransitionedDraft_token_kept(draft, status) ==
    [draft EXCEPT
        !.status = status,
        !.approved_at = IF status = "APPROVED" THEN now ELSE @]

\* the row written by update_draft_status on a legal transition
TransitionedDraft(draft, status) ==
    [draft EXCEPT
        !.status = status,
        !.approved_at = IF status = "APPROVED" THEN now ELSE @,
        !.approval_token_hash =
            IF status \in {"APPROVED", "REJECTED"} THEN NULL ELSE @]

\* an update that writes the status without consulting the transition table
update_draft_status_queue_unvalidated(queue, draft_id, status) ==
    IF queue[draft_id] = NULL THEN queue
    ELSE IF status \notin Statuses THEN queue
    ELSE [queue EXCEPT ![draft_id] = TransitionedDraft(@, status)]

\* StateManager.update_draft_status: the queue after the call
update_draft_status_queue(queue, draft_id, status) ==
    IF queue[draft_id] = NULL THEN queue
    ELSE IF status \notin AllowedFrom(queue[draft_id].status) THEN queue
    ELSE [queue EXCEPT ![draft_id] = TransitionedDraft(@, status)]

\* StateManager.update_draft_status: the returned bool
update_draft_status_result(queue, draft_id, status) ==
    /\ queue[draft_id] # NULL
    /\ status \in AllowedFrom(queue[draft_id].status)

UpdateDraftStatus ==
    \E draft_id \in DraftIds, status \in StatusInputs :
        /\ draft_queue' = update_draft_status_queue(draft_queue, draft_id, status)
        /\ ret' = [op |-> "update_draft_status",
                   val |-> Bool(update_draft_status_result(draft_queue, draft_id,
                                                           status)),
                   upstream |-> 0, draft_id |-> draft_id, status |-> status]
        /\ UNCHANGED <<agents, engagement, pipeline, now, replied_items, daily_stats, performance_history,
                       client, background_tasks>>

\* a query without the created_at filter
TokenMatches_no_expiry(token) ==
    {d \in ExistingDrafts :
        /\ draft_queue[d].approval_token_hash = hash_token(token)
        /\ draft_queue[d].status = "PENDING"}

\* the rows matched by the query of get_draft_by_token
TokenMatches(token) ==
    {d \in ExistingDrafts :
        /\ draft_queue[d].approval_token_hash = hash_token(token)
        /\ draft_queue[d].created_at >= now - TOKEN_TTL_HOURS * MinutesPerHour
        /\ draft_queue[d].status = "PENDING"}

\* StateManager.get_draft_by_token: the draft id found, or None
get_draft_by_token(token) ==
    IF token = EmptyToken \/ token_len(token) < MIN_TOKEN_LENGTH THEN None
    ELSE IF TokenMatches(token) = {} THEN None
    ELSE CHOOSE d \in TokenMatches(token) : TRUE

GetDraftByToken ==
    \E token \in TokenInputs :
        /\ ret' = [op |-> "get_draft_by_token", val |-> get_draft_by_token(token),
                   upstream |-> 0, token |-> token]
        /\ UNCHANGED <<agents, engagement, pipeline, now, dbvars, client, background_tasks>>


(***************************************************************************)
(* Replay ledger (services/state_manager.py)                               *)
(***************************************************************************)
\* fetch_candidates_node tags the inbox candidates HIGH, every other
\* candidate keeps the default NORMAL
Priority(reddit_id) == IF reddit_id \in InboxIds THEN "HIGH" ELSE "NORMAL"

\* StateManager.mark_replied: the ledger after the upsert
mark_replied(items, reddit_id, status, candidate_type) ==
    [items EXCEPT ![reddit_id] =
        [status |-> status, last_attempt |-> now,
         candidate_type |-> candidate_type]]

\* hasattr(item, 'priority'): the replied_items row has no such column
HasPriorityAttr == FALSE

\* a selection that gives every comment row the inbox cooldown
CooldownHoursFor_every_comment(item) ==
    IF item.candidate_type = "comment"
    THEN inbox_cooldown_hours
    ELSE cooldown_hours

\* the cooldown is_retryable selects for a FAILED row, in hours
CooldownHoursFor(item) ==
    IF item.candidate_type = "comment" /\ HasPriorityAttr
    THEN inbox_cooldown_hours
    ELSE cooldown_hours

\* StateManager.is_retryable
is_retryable(reddit_id) ==
    LET item == replied_items[reddit_id] IN
    IF item = NULL THEN TRUE
    ELSE IF item.status = "SUCCESS" THEN FALSE
    ELSE IF item.status = "SKIPPED" THEN FALSE
    ELSE ~(now < item.last_attempt + CooldownHoursFor(item) * MinutesPerHour)

\* StateManager.has_replied
has_replied(reddit_id) ==
    /\ replied_items[reddit_id] # NULL
    /\ replied_items[reddit_id].status = "SUCCESS"

MarkReplied ==
    \E reddit_id \in RedditIds, status \in ReplyStatuses,
       candidate_type \in CandidateTypes :
        /\ replied_items' =
                mark_replied(replied_items, reddit_id, status, candidate_type)
        /\ ret' = [op |-> "mark_replied", val |-> None, upstream |-> 0]
        /\ UNCHANGED <<agents, engagement, pipeline, now, draft_queue, daily_stats, performance_history,
                       client, background_tasks>>

IsRetryable ==
    \E reddit_id \in RedditIds :
        /\ ret' = [op |-> "is_retryable", val |-> Bool(is_retryable(reddit_id)),
                   upstream |-> 0, reddit_id |-> reddit_id, at |-> now]
        /\ UNCHANGED <<agents, engagement, pipeline, now, dbvars, client, background_tasks>>

(***************************************************************************)
(* Daily volume and performance history (services/state_manager.py)        *)
(***************************************************************************)
\* StateManager.get_daily_count
get_daily_count(stats) == stats[Day(now)]

\* a gate that never closes
can_post_today_always(stats) == get_daily_count(stats) >= 0

\* a gate that still admits a post when the count has reached the maximum
can_post_today_inclusive(stats) == get_daily_count(stats) <= max_daily

\* StateManager.can_post_today
can_post_today(stats) == get_daily_count(stats) < max_daily

\* StateManager.increment_daily_count
increment_daily_count(stats) == [stats EXCEPT ![Day(now)] = @ + 1]

\* StateManager.record_performance_outcome
record_performance_outcome(history, draft_id, outcome) ==
    [history EXCEPT ![draft_id] = outcome]

(***************************************************************************)
(* Risk governor and upstream client (services/reddit_client.py)           *)
(*                                                                         *)
(* Every operation yields [client, val, upstream]: the client after the    *)
(* call, the value returned or the exception raised, and the number of     *)
(* upstream requests the call attempted.                                   *)
(***************************************************************************)
Min(a, b) == IF a < b THEN a ELSE b

\* an error counted without the request it belongs to
record_error_uncounted(c, error_type) ==
    IF error_type = "403"
    THEN [c EXCEPT !.error_403 = @ + 1]
    ELSE IF error_type = "empty_listing"
    THEN [c EXCEPT !.empty_listing = @ + 1]
    ELSE c

\* RedditClient._record_error
record_error(c, error_type) ==
    LET counted ==
            IF error_type = "403"
            THEN [c EXCEPT !.error_403 = @ + 1]
            ELSE IF error_type = "empty_listing"
            THEN [c EXCEPT !.empty_listing = @ + 1]
            ELSE c
    IN [counted EXCEPT !.total_requests = @ + 1]

\* RedditClient._calculate_shadowban_risk, in percent and multiplied by
\* the total number of requests (risk = RiskTimesTotal / total_requests)
RiskTimesTotal(c) ==
    IF c.total_requests = 0 THEN 0
    ELSE Min(c.error_403 * error_403_weight
                + c.empty_listing * empty_listing_weight,
             100 * c.total_requests)

\* RedditClient._check_shadowban_risk raises: risk > threshold
RiskExceeded(c) ==
    /\ c.total_requests # 0
    /\ RiskTimesTotal(c) > c.risk_threshold * c.total_requests

\* RedditClient._check_rate_limit raises
RateLimited(c) == c.rate_limit_remaining <= 0

\* the two checks in the opposite order
BothChecks_risk_first(c) ==
    IF RiskExceeded(c) THEN "SafetyLockoutException"
    ELSE IF RateLimited(c) THEN "RateLimitExceeded"
    ELSE "ok"

\* _check_rate_limit() followed by _check_shadowban_risk()
BothChecks(c) ==
    IF RateLimited(c) THEN "RateLimitExceeded"
    ELSE IF RiskExceeded(c) THEN "SafetyLockoutException"
    ELSE "ok"

\* _check_rate_limit() alone
RateCheckOnly(c) == IF RateLimited(c) THEN "RateLimitExceeded" ELSE "ok"

Counted(c) == [c EXCEPT !.total_requests = @ + 1]

\* the except clause shared by the fetch and post operations: a failure
\* whose text contains "403" is recorded, then the exception is re-raised
FailedRequest(c, outcome) ==
    CASE outcome = "403_at_call" -> record_error(c, "403")
      [] outcome = "403_in_listing" -> record_error(Counted(c), "403")
      [] outcome = "error_at_call" -> c
      [] outcome = "error_in_listing" -> Counted(c)

FailureOutcomes ==
    {"403_at_call", "403_in_listing", "error_at_call", "error_in_listing"}

ExceptionOf(outcome) ==
    IF outcome \in {"403_at_call", "403_in_listing"} THEN "Forbidden403"
    ELSE "Exception"

\* RedditClient.fetch_inbox_replies
fetch_inbox_replies(c, outcome) ==
    IF BothChecks(c) # "ok"
    THEN [client |-> c, val |-> BothChecks(c), upstream |-> 0]
    ELSE IF outcome \in FailureOutcomes
    THEN [client |-> FailedRequest(c, outcome), val |-> ExceptionOf(outcome),
          upstream |-> 1]
    ELSE [client |-> Counted(c), val |-> "ok", upstream |-> 1]

\* RedditClient.fetch_rising_posts; outcome "posts" is a listing with one
\* valid post, "empty" a listing with none
fetch_rising_posts(c, subreddit, outcome) ==
    IF c.rising_posts_cache[subreddit] # NotCached
    THEN [client |-> c, val |-> "cached", upstream |-> 0,
          posts |-> c.rising_posts_cache[subreddit]]
    ELSE IF BothChecks(c) # "ok"
    THEN [client |-> c, val |-> BothChecks(c), upstream |-> 0, posts |-> 0]
    ELSE IF outcome \in FailureOutcomes
    THEN [client |-> FailedRequest(c, outcome), val |-> ExceptionOf(outcome),
          upstream |-> 1, posts |-> 0]
    ELSE IF outcome = "empty"
    THEN [client |-> [record_error(Counted(c), "empty_listing") EXCEPT
                        !.rising_posts_cache[subreddit] = 0],
          val |-> "ok", upstream |-> 1, posts |-> 0]
    ELSE [client |-> [Counted(c) EXCEPT !.rising_posts_cache[subreddit] = 1],
          val |-> "ok", upstream |-> 1, posts |-> 1]

ListingOutcomes == FailureOutcomes \cup {"posts", "empty"}

\* What a sequence of client calls has done so far: the client, the number
\* of upstream requests attempted, whether a guarded call has raised
\* SafetyLockoutException, and the requests attempted after that.
NewCalls(c) == [client |-> c, upstream |-> 0, tripped |-> FALSE, after_trip |-> 0]

\* one more call, with the given result, after the calls F
AfterCall(F, result) ==
    [client |-> result.client,
     upstream |-> F.upstream + result.upstream,
     tripped |-> F.tripped \/ result.val = "SafetyLockoutException",
     after_trip |-> F.after_trip + (IF F.tripped THEN result.upstream ELSE 0)]

\* the valid rising post of a subreddit and its top-level comment, as
\* candidates (quality_score and priority at their dataclass defaults)
PostOf == [s \in Subreddits |-> IF s = "sub_a" THEN "p_a" ELSE "p_b"]
TopCommentOf == [s \in Subreddits |-> IF s = "sub_a" THEN "r_rising" ELSE "c_b"]

\* no score from the tracker: learning off, no tracker, or the tracker raised
NoTrackerScore == -1

\* the branch of each scoring factor that an item's upstream data selects
SignalsOf(reddit_id) ==
    [upvote |-> IF reddit_id \in PostIds THEN "excellent" ELSE "good",
     karma |-> IF reddit_id = "r_inbox" THEN "established" ELSE "regular",
     freshness |-> "hot",
     velocity |-> IF reddit_id \in {"p_a", "r_rising"} THEN "high" ELSE "low",
     question |-> IF reddit_id \in PostIds THEN {"question_mark"} ELSE {},
     depth |-> "ideal",
     historical |-> NoTrackerScore]

CandidatePost(subreddit) ==
    [reddit_id |-> PostOf[subreddit], subreddit |-> subreddit,
     candidate_type |-> "post", post_id |-> "", thread |-> PostOf[subreddit],
     priority |-> "NORMAL", quality_score |-> [num |-> 0, den |-> 1000],
     signals |-> SignalsOf(PostOf[subreddit])]

CandidateComment(reddit_id, subreddit, post_id) ==
    [reddit_id |-> reddit_id, subreddit |-> subreddit,
     candidate_type |-> "comment", post_id |-> post_id, thread |-> post_id,
     priority |-> "NORMAL", quality_score |-> [num |-> 0, den |-> 1000],
     signals |-> SignalsOf(reddit_id)]

\* the unread inbox reply: a comment in a thread of sub_a
InboxReply == CandidateComment("r_inbox", "sub_a", "t_old")

\* RedditClient.fetch_rising_candidates from the i-th allowed subreddit on:
\* the listing, then one replace_more request per post; any exception ends
\* the subreddit and the loop continues with the next one
RECURSIVE rising_candidates_from(_, _, _, _, _)
rising_candidates_from(F, i, listing, expansion, candidates) ==
    IF i > Len(allowed_subreddits)
    THEN [client |-> F.client, val |-> "ok", upstream |-> F.upstream,
          tripped |-> F.tripped, after_trip |-> F.after_trip,
          candidates |-> candidates]
    ELSE
        LET subreddit == allowed_subreddits[i]
            fetched == fetch_rising_posts(F.client, subreddit, listing[subreddit])
            G == AfterCall(F, fetched)
            no_posts == fetched.val \notin {"ok", "cached"} \/ fetched.posts = 0
            expanded ==
                IF no_posts
                THEN [client |-> G.client, val |-> "ok", upstream |-> 0]
                ELSE IF expansion[subreddit] = "error"
                THEN [client |-> G.client, val |-> "Exception", upstream |-> 1]
                ELSE [client |-> Counted(G.client), val |-> "ok", upstream |-> 1]
        IN rising_candidates_from(
                AfterCall(G, expanded), i + 1, listing, expansion,
                IF no_posts \/ expanded.val # "ok" THEN candidates
                ELSE Append(candidates,
                            CandidateComment(TopCommentOf[subreddit], subreddit,
                                             PostOf[subreddit])))

fetch_rising_candidates_after(F, listing, expansion) ==
    rising_candidates_from(F, 1, listing, expansion, <<>>)

fetch_rising_candidates(c, listing, expansion) ==
    fetch_rising_candidates_after(NewCalls(c), listing, expansion)

\* RedditClient.fetch_rising_posts_as_candidates from the i-th allowed
\* subreddit on; an exception of fetch_rising_posts ends the subreddit
RECURSIVE rising_posts_as_candidates_from(_, _, _, _)
rising_posts_as_candidates_from(F, i, listing, candidates) ==
    IF i > Len(allowed_subreddits)
    THEN [client |-> F.client, val |-> "ok", upstream |-> F.upstream,
          tripped |-> F.tripped, after_trip |-> F.after_trip,
          candidates |-> candidates]
    ELSE
        LET subreddit == allowed_subreddits[i]
            fetched == fetch_rising_posts(F.client, subreddit, listing[subreddit])
        IN rising_posts_as_candidates_from(
                AfterCall(F, fetched), i + 1, listing,
                IF fetched.val \in {"ok", "cached"} /\ fetched.posts > 0
                THEN Append(candidates, CandidatePost(subreddit))
                ELSE candidates)

fetch_rising_posts_as_candidates_after(F, listing) ==
    rising_posts_as_candidates_from(F, 1, listing, <<>>)

\* RedditClient.post_comment
post_comment(c, dry_run, outcome) ==
    IF BothChecks(c) # "ok"
    THEN [client |-> c, val |-> BothChecks(c), upstream |-> 0]
    ELSE IF dry_run
    THEN [client |-> c, val |-> None, upstream |-> 0]
    ELSE IF outcome = "403"
    THEN [client |-> record_error(c, "403"), val |-> "Forbidden403",
          upstream |-> 1]
    ELSE IF outcome = "error"
    THEN [client |-> c, val |-> "Exception", upstream |-> 1]
    ELSE [client |-> Counted(c), val |-> "comment_id", upstream |-> 1]

PostOutcomes == {"ok", "403", "error"}

\* RedditClient.get_comment_context: the submission, then `parents` parent
\* comments (at most two above the target); outcome "error" is a failure of
\* the first request
get_comment_context(c, parents, outcome) ==
    IF RateCheckOnly(c) # "ok"
    THEN [client |-> c, val |-> RateCheckOnly(c), upstream |-> 0]
    ELSE IF outcome = "error"
    THEN [client |-> c, val |-> "Exception", upstream |-> 1]
    ELSE [client |-> [c EXCEPT !.total_requests = @ + 1 + parents],
          val |-> "ok", upstream |-> 1 + parents]

\* RedditClient.get_post_context: counts a request, performs none
get_post_context(c) ==
    IF RateCheckOnly(c) # "ok"
    THEN [client |-> c, val |-> RateCheckOnly(c), upstream |-> 0]
    ELSE [client |-> Counted(c), val |-> "ok", upstream |-> 0]

\* RedditClient.clear_cache
\* a run that keeps the listings of the run before
clear_cache_kept(c) == c

\* RedditClient.clear_cache
clear_cache(c) ==
    [c EXCEPT !.rising_posts_cache = [s \in Subreddits |-> NotCached]]

\* RedditClient._update_rate_limit
update_rate_limit(c, remaining) == [c EXCEPT !.rate_limit_remaining = remaining]

ClientResult(op, result) ==
    /\ client' = result.client
    /\ ret' = [op |-> op, val |-> result.val, upstream |-> result.upstream]
    /\ UNCHANGED <<agents, engagement, pipeline, now, dbvars, background_tasks>>

\* the model stops issuing client calls once MaxRequests have been counted
Budget == client.total_requests < MaxRequests

FetchInboxReplies ==
    /\ Budget
    /\ \E outcome \in FailureOutcomes \cup {"ok"} :
        ClientResult("fetch_inbox_replies", fetch_inbox_replies(client, outcome))

\* one call of fetch_rising_posts
FetchRisingPostsCall ==
    \E subreddit \in Subreddits, outcome \in ListingOutcomes :
        LET result == fetch_rising_posts(client, subreddit, outcome)
        IN  /\ client' = result.client
            /\ ret' = [op |-> "fetch_rising_posts", val |-> result.val,
                       upstream |-> result.upstream, subreddit |-> subreddit]
            /\ UNCHANGED <<agents, engagement, pipeline, now, dbvars, background_tasks>>

FetchRisingPosts ==
    /\ Budget
    /\ FetchRisingPostsCall

FetchRisingCandidates ==
    /\ Budget
    /\ \E listing \in [Subreddits -> {"posts", "empty", "403_at_call"}],
          expansion \in [Subreddits -> {"ok", "error"}] :
        ClientResult("fetch_rising_candidates",
                     fetch_rising_candidates(client, listing, expansion))

PostComment ==
    /\ Budget
    /\ \E dry_run \in BOOLEAN, outcome \in PostOutcomes :
        ClientResult("post_comment", post_comment(client, dry_run, outcome))

GetCommentContext ==
    /\ Budget
    /\ \E parents \in 0..2, outcome \in {"ok", "error"} :
        ClientResult("get_comment_context",
                     get_comment_context(client, parents, outcome))

GetPostContext ==
    /\ Budget
    /\ ClientResult("get_post_context", get_post_context(client))

ClearCache ==
    /\ client' = clear_cache(client)
    /\ ret' = [op |-> "clear_cache", val |-> None, upstream |-> 0]
    /\ UNCHANGED <<agents, engagement, pipeline, now, dbvars, background_tasks>>

UpdateRateLimit ==
    /\ \E remaining \in {0, INITIAL_RATE_LIMIT} :
        client' = update_rate_limit(client, remaining)
    /\ ret' = [op |-> "update_rate_limit", val |-> None, upstream |-> 0]
    /\ UNCHANGED <<agents, engagement, pipeline, now, dbvars, background_tasks>>

(***************************************************************************)
(* Publisher (services/poster.py)                                          *)
(*                                                                         *)
(* A publisher state is [q, r, ds, ph, c]: draft queue, replay ledger,     *)
(* daily stats, performance history and the poster's client.               *)
(***************************************************************************)
FreshClient(threshold) ==
    [error_403 |-> 0,
     empty_listing |-> 0,
     total_requests |-> 0,
     rate_limit_remaining |-> INITIAL_RATE_LIMIT,
     risk_threshold |-> threshold,
     rising_posts_cache |-> [s \in Subreddits |-> NotCached]]

PublishOutcomes == {"ok", "parent_error", "403", "error"}

\* comment.id of the comment posted for a draft
CommentIdOf ==
    [d \in DraftIds |->
        CASE d = "d1" -> "k1" [] d = "d2" -> "k2" [] OTHER -> "k3"]

\* an except clause that returns the failed result and marks nothing
publish_failed_unmarked(S, reddit_id, c, upstream, error) ==
    [q |-> S.q, r |-> S.r, ds |-> S.ds, ph |-> S.ph, c |-> c,
     val |-> "failed", upstream |-> upstream, error |-> error]

\* the except clause of publish_single: mark FAILED for the cooldown and
\* return the text of the exception
publish_failed(S, reddit_id, c, upstream, error) ==
    [q |-> S.q,
     r |-> mark_replied(S.r, reddit_id, "FAILED", "comment"),
     ds |-> S.ds, ph |-> S.ph, c |-> c,
     val |-> "failed", upstream |-> upstream, error |-> error]

\* the success path of publish_single after post_comment has returned
publish_succeeded(S, draft_id, dry_run, c, upstream) ==
    LET marked == update_draft_status_queue(S.q, draft_id, "PUBLISHED") IN
    [q |-> IF dry_run THEN marked
           ELSE [marked EXCEPT ![draft_id].comment_id = CommentIdOf[draft_id],
                               ![draft_id].published_at = now],
     r |-> mark_replied(S.r, S.q[draft_id].reddit_id, "SUCCESS", "comment"),
     ds |-> IF dry_run THEN S.ds ELSE increment_daily_count(S.ds),
     ph |-> IF dry_run THEN S.ph
            ELSE record_performance_outcome(S.ph, draft_id, "PUBLISHED"),
     c |-> c,
     val |-> "success", upstream |-> upstream, error |-> None]

\* PublishResult of a draft that the daily limit stops
publish_blocked(S) ==
    [q |-> S.q, r |-> S.r, ds |-> S.ds, ph |-> S.ph, c |-> S.c,
     val |-> "Daily limit reached", upstream |-> 0,
     error |-> "Daily limit reached"]

\* CommentPoster.publish_single
publish_single(S, draft_id, dry_run, outcome) ==
    IF ~can_post_today(S.ds)
    THEN publish_blocked(S)
    ELSE IF outcome = "parent_error"
    THEN publish_failed(S, S.q[draft_id].reddit_id, S.c, 0, "parent_error")
    ELSE
        LET posted == post_comment(S.c, dry_run, outcome) IN
        IF posted.val \notin {None, "comment_id"}
        THEN publish_failed(S, S.q[draft_id].reddit_id, posted.client,
                            posted.upstream, posted.val)
        ELSE publish_succeeded(S, draft_id, dry_run, posted.client,
                               posted.upstream)

\* StateManager.get_approved_drafts: the APPROVED drafts ordered by
\* approved_at, at most `limit` of them; rows with equal approved_at come
\* in either order
ApprovedDrafts == {d \in ExistingDrafts : draft_queue[d].status = "APPROVED"}

get_approved_drafts(limit) ==
    LET n == Min(limit, Cardinality(ApprovedDrafts)) IN
    {order \in [1..n -> ApprovedDrafts] :
        /\ \A i, j \in 1..n : i < j =>
                /\ order[i] # order[j]
                /\ draft_queue[order[i]].approved_at
                        <= draft_queue[order[j]].approved_at
        /\ \A d \in ApprovedDrafts :
                (\A i \in 1..n : order[i] # d) =>
                    \A i \in 1..n : draft_queue[order[i]].approved_at
                                        <= draft_queue[d].approved_at}

\* the loop of CommentPoster.publish_approved from the i-th draft on
RECURSIVE publish_from(_, _, _, _, _)
publish_from(S, drafts, i, dry_run, outcomes) ==
    IF i > Len(drafts) THEN S
    ELSE IF ~can_post_today(S.ds) THEN S
    ELSE publish_from(publish_single(S, drafts[i], dry_run, outcomes[drafts[i]]),
                      drafts, i + 1, dry_run, outcomes)

DbState(c) ==
    [q |-> draft_queue, r |-> replied_items, ds |-> daily_stats,
     ph |-> performance_history, c |-> c]

SetDb(S) ==
    /\ draft_queue' = S.q
    /\ replied_items' = S.r
    /\ daily_stats' = S.ds
    /\ performance_history' = S.ph

\* the `publish` command: publish_approved with a poster and a client of
\* its own, created for the command
PublishApproved ==
    \E limit \in 1..2, dry_run \in BOOLEAN :
        \E drafts \in get_approved_drafts(limit) :
        \E outcomes \in [{drafts[i] : i \in 1..Len(drafts)} -> PublishOutcomes] :
            LET S == publish_from(DbState(FreshClient(DEFAULT_RISK_THRESHOLD)),
                                  drafts, 1, dry_run, outcomes)
            IN /\ SetDb(S)
               /\ ret' = [op |-> "publish_approved", val |-> None,
                          upstream |-> 0]
               /\ UNCHANGED <<agents, engagement, pipeline, now, client, background_tasks>>

\* _publish_draft_async: the background task of the callback server
\* publishes the draft it was handed with the server's poster
PublishDraftAsync ==
    \E draft_id \in background_tasks, dry_run \in BOOLEAN,
       outcome \in PublishOutcomes :
        LET S == publish_single(DbState(client), draft_id, dry_run, outcome)
        IN /\ SetDb(S)
           /\ client' = S.c
           /\ background_tasks' = background_tasks \ {draft_id}
           /\ ret' = [op |-> "publish_single", val |-> S.val,
                      upstream |-> S.upstream, draft_id |-> draft_id,
                      error |-> S.error]
           /\ UNCHANGED <<agents, engagement, pipeline, now>>

(***************************************************************************)
(* Two publishers inside publish_single at once: the `publish` command and *)
(* the callback server's background task are separate processes over one   *)
(* database.  publish_single is followed statement by statement: the       *)
(* can_post_today test, the upstream post, the writes behind it.           *)
(***************************************************************************)
PublisherIds == {"cli", "server"}

\* no publisher at work; `posted` non-dry-run comments are upstream today
NoPublishers(posted) ==
    [pc |-> [p \in PublisherIds |-> "idle"],
     draft |-> [p \in PublisherIds |-> None],
     posted |-> posted]

\* publish_single up to the daily-limit test, for an APPROVED draft
CheckLimit(p) ==
    /\ publishers.pc[p] = "idle"
    /\ \E draft_id \in ApprovedDrafts :
        IF can_post_today(daily_stats)
        THEN /\ publishers' = [publishers EXCEPT !.pc[p] = "checked",
                                                 !.draft[p] = draft_id]
             /\ ret' = [op |-> "can_post_today", val |-> "True",
                        upstream |-> 0, draft_id |-> draft_id]
        ELSE /\ publishers' = publishers
             /\ ret' = [op |-> "publish_single",
                        val |-> "Daily limit reached", upstream |-> 0,
                        draft_id |-> draft_id,
                        error |-> "Daily limit reached"]
    /\ UNCHANGED <<generator, rule_engine, engagement, pipeline, now, dbvars,
                   client, background_tasks>>

\* _fetch_parent_comment and post_comment; a failure goes to the except
\* clause
PostUpstream(p) ==
    /\ publishers.pc[p] = "checked"
    /\ publishers.posted < max_daily + 2
    /\ \E outcome \in {"ok", "error"} :
        LET draft_id == publishers.draft[p]
            S == publish_failed(DbState(client),
                                draft_queue[draft_id].reddit_id, client, 1,
                                "Exception")
        IN  IF outcome = "ok"
            THEN /\ publishers' = [publishers EXCEPT !.pc[p] = "posted",
                                                     !.posted = @ + 1]
                 /\ ret' = [op |-> "post_comment", val |-> "comment_id",
                            upstream |-> 1, draft_id |-> draft_id]
                 /\ UNCHANGED dbvars
            ELSE /\ publishers' = [publishers EXCEPT !.pc[p] = "idle",
                                                     !.draft[p] = None]
                 /\ SetDb(S)
                 /\ ret' = [op |-> "publish_single", val |-> S.val,
                            upstream |-> 1, draft_id |-> draft_id,
                            error |-> S.error]
    /\ UNCHANGED <<generator, rule_engine, engagement, pipeline, now, client,
                   background_tasks>>

\* the writes after the post: status, comment id, performance record,
\* replay record, and last the daily count; a write that raises goes to the
\* except clause before the count is incremented
RecordPublished(p) ==
    /\ publishers.pc[p] = "posted"
    /\ \E outcome \in {"ok", "error"} :
        LET draft_id == publishers.draft[p]
            S == IF outcome = "ok"
                 THEN publish_succeeded(DbState(client), draft_id, FALSE,
                                        client, 0)
                 ELSE publish_failed(DbState(client),
                                     draft_queue[draft_id].reddit_id, client,
                                     0, "Exception")
        IN  /\ SetDb(S)
            /\ ret' = [op |-> "publish_single", val |-> S.val,
                       upstream |-> 0, draft_id |-> draft_id,
                       error |-> S.error]
    /\ publishers' = [publishers EXCEPT !.pc[p] = "idle", !.draft[p] = None]
    /\ UNCHANGED <<generator, rule_engine, engagement, pipeline, now, client,
                   background_tasks>>

(***************************************************************************)
(* Approval callback surface (api/callback_server.py)                      *)
(***************************************************************************)
CallbackActions == {"approve", "reject", "delete"}

\* process_callback: [q, ph, val]
process_callback(action, draft_id) ==
    IF action \notin {"approve", "reject"}
    THEN [q |-> draft_queue, ph |-> performance_history, val |-> "False"]
    ELSE
        LET new_status == IF action = "approve" THEN "APPROVED" ELSE "REJECTED"
        IN IF update_draft_status_result(draft_queue, draft_id, new_status)
           THEN [q |-> update_draft_status_queue(draft_queue, draft_id, new_status),
                 ph |-> record_performance_outcome(performance_history,
                                                   draft_id, new_status),
                 val |-> "True"]
           ELSE [q |-> draft_queue, ph |-> performance_history, val |-> "False"]

\* handle_callback with a valid signature
ProcessCallback ==
    \E action \in CallbackActions, draft_id \in DraftIds :
        LET result == process_callback(action, draft_id) IN
        /\ draft_queue' = result.q
        /\ performance_history' = result.ph
        /\ ret' = [op |-> "process_callback", val |-> result.val,
                   upstream |-> 0, draft_id |-> draft_id]
        /\ UNCHANGED <<agents, engagement, pipeline, now, replied_items, daily_stats, client,
                       background_tasks>>

\* handle_approval_link; auto-publish is enabled and a poster configured
handle_approval_link(token, action) ==
    IF action \notin {"approve", "reject"}
    THEN [q |-> draft_queue, ph |-> performance_history,
          tasks |-> background_tasks, val |-> "400"]
    ELSE IF token = EmptyToken \/ token_len(token) < MIN_TOKEN_LENGTH
    THEN [q |-> draft_queue, ph |-> performance_history,
          tasks |-> background_tasks, val |-> "400"]
    ELSE IF get_draft_by_token(token) = None
    THEN [q |-> draft_queue, ph |-> performance_history,
          tasks |-> background_tasks, val |-> "410"]
    ELSE
        LET draft_id == get_draft_by_token(token)
            result == process_callback(action, draft_id)
        IN IF result.val = "True"
           THEN [q |-> result.q, ph |-> result.ph,
                 tasks |-> IF action = "approve"
                              /\ result.q[draft_id].status = "APPROVED"
                           THEN background_tasks \cup {draft_id}
                           ELSE background_tasks,
                 val |-> "200"]
           ELSE [q |-> result.q, ph |-> result.ph,
                 tasks |-> background_tasks, val |-> "400"]

HandleApprovalLink ==
    \E token \in TokenInputs, action \in CallbackActions :
        LET result == handle_approval_link(token, action) IN
        /\ draft_queue' = result.q
        /\ performance_history' = result.ph
        /\ background_tasks' = result.tasks
        /\ ret' = [op |-> "handle_approval_link", val |-> result.val,
                   upstream |-> 0, token |-> token]
        /\ UNCHANGED <<agents, engagement, pipeline, now, replied_items, daily_stats, client>>

(***************************************************************************)
(* The clock                                                               *)
(***************************************************************************)
(***************************************************************************)
(* Engagement checker (services/engagement_checker.py)                     *)
(***************************************************************************)
\* a selection that does not wait for the observation delay
ReadyForCheck_no_delay(draft) ==
    /\ draft.status = "PUBLISHED"
    /\ ~draft.engagement_checked
    /\ draft.published_at # NoTime
    /\ draft.comment_id # None

\* the filter of the query in check_pending_engagements; a NULL
\* published_at satisfies no comparison
ReadyForCheck(draft) ==
    /\ draft.status = "PUBLISHED"
    /\ ~draft.engagement_checked
    /\ draft.published_at # NoTime
    /\ draft.published_at < now - engagement_check_delay_hours * MinutesPerHour
    /\ draft.comment_id # None

DraftsToCheck == {d \in ExistingDrafts : ReadyForCheck(draft_queue[d])}

\* StateManager.update_engagement_metrics: the engagement columns of the
\* draft's performance_history row, when the row exists; the score is
\* log(upvotes + 1) + replies * 2
update_engagement_metrics(metrics, draft_id, upvotes, replies) ==
    IF performance_history[draft_id] = None THEN metrics
    ELSE [metrics EXCEPT ![draft_id] =
            [upvotes_24h |-> upvotes, replies_24h |-> replies,
             engagement_score |-> <<"log", upvotes + 1, "plus", replies * 2>>]]

\* StateManager.mark_engagement_checked: the first draft with the comment id
mark_engagement_checked(queue, comment_id) ==
    LET found == {d \in DraftIds :
                    queue[d] # NULL /\ queue[d].comment_id = comment_id}
    IN  IF found = {} THEN queue
        ELSE LET d == CHOOSE d \in found : TRUE
             IN  [queue EXCEPT ![d].engagement_checked = TRUE]

EngagementOutcomes == {"ok", "AttributeError", "Exception"}

\* _check_single_draft for each of the drafts, in any order: [q, e]
RECURSIVE check_drafts(_, _, _, _)
check_drafts(S, drafts, outcomes, metrics) ==
    IF drafts = {} THEN S
    ELSE
        LET d == CHOOSE d \in drafts : TRUE
            comment_id == draft_queue[d].comment_id
            checked ==
                CASE outcomes[d] = "ok" ->
                        [q |-> mark_engagement_checked(S.q, comment_id),
                         e |-> update_engagement_metrics(
                                    S.e, d, metrics[d].upvotes,
                                    metrics[d].replies)]
                  [] outcomes[d] = "AttributeError" ->
                        [q |-> mark_engagement_checked(S.q, comment_id),
                         e |-> S.e]
                  [] OTHER -> S
        IN  check_drafts(checked, drafts \ {d}, outcomes, metrics)

\* EngagementChecker.check_pending_engagements with engagement checks
\* enabled; the query returns at most `limit` of the drafts that are ready
CheckPendingEngagements ==
    \E limit \in 1..2 :
    \E drafts \in {D \in SUBSET DraftsToCheck :
                    Cardinality(D) = Min(limit, Cardinality(DraftsToCheck))} :
    \E outcomes \in [drafts -> EngagementOutcomes],
       metrics \in [drafts -> [upvotes : {0, 5}, replies : {0, 1}]] :
        LET S == check_drafts([q |-> draft_queue, e |-> engagement],
                              drafts, outcomes, metrics)
        IN  /\ draft_queue' = S.q
            /\ engagement' = S.e
            /\ ret' = [op |-> "check_pending_engagements", val |-> None,
                       upstream |-> Cardinality(drafts), drafts |-> drafts]
            /\ UNCHANGED <<agents, pipeline, now, replied_items, daily_stats,
                           performance_history, client, background_tasks>>

Tick ==
    /\ \E t \in TokenInstants : t > now /\ now' = t
    /\ UNCHANGED <<agents, engagement, pipeline, dbvars, client, background_tasks, ret>>

TickCooldown ==
    /\ \E t \in CooldownInstants : t > now /\ now' = t
    /\ UNCHANGED <<agents, engagement, pipeline, dbvars, client, background_tasks, ret>>

(***************************************************************************)
(* Initial state: empty database, fresh client                             *)
(***************************************************************************)
(***************************************************************************)
(* Workflow (workflow/nodes.py, workflow/graph.py, workflow/runner.py)     *)
(*                                                                         *)
(* A candidate is a record with the fields of CandidateComment /           *)
(* CandidatePost the nodes read; post_id is "" where the dataclass has no  *)
(* such field, thread is the submission the candidate belongs to.          *)
(* quality_score is the exact fraction num / den, den > 0.                 *)
(***************************************************************************)
Score(n) == [num |-> n, den |-> ScoreScale]

\* a.quality_score >= threshold, threshold in thousandths
AtLeast(score, threshold) == score.num * ScoreScale >= threshold * score.den

\* the override test with a strict comparison
BoostAllowed_strict(score, threshold) ==
    score.num * ScoreScale > threshold * score.den

\* diversity_select_node: quality_score >= quality_boost_threshold
BoostAllowed(score, threshold) == AtLeast(score, threshold)

\* getattr(candidate, 'post_id', '') with the thread of a post filled in
PostIdOf_thread(candidate) ==
    IF candidate.candidate_type = "post" THEN candidate.reddit_id
    ELSE candidate.post_id

\* getattr(candidate, 'post_id', ''): CandidatePost has no post_id field
PostIdOf(candidate) ==
    IF candidate.candidate_type = "post" THEN "" ELSE candidate.post_id

CountIn(counts, subreddit) ==
    IF subreddit \in DOMAIN counts THEN counts[subreddit] ELSE 0

\* the loop of diversity_select_node from the i-th candidate on
RECURSIVE diversity_walk(_, _, _, _, _, _)
diversity_walk(candidates, i, selected, subreddit_counts, selected_post_ids, s) ==
    IF i > Len(candidates) THEN selected
    ELSE
        LET candidate == candidates[i]
            subreddit == candidate.subreddit
            post_id == PostIdOf(candidate)
            current_count == CountIn(subreddit_counts, subreddit)
        IN  IF post_id # "" /\ post_id \in selected_post_ids
            THEN diversity_walk(candidates, i + 1, selected, subreddit_counts,
                                selected_post_ids, s)
            ELSE IF /\ current_count >= s.max_per_subreddit
                    /\ ~BoostAllowed(candidate.quality_score,
                                     s.diversity_quality_boost_threshold)
            THEN diversity_walk(candidates, i + 1, selected, subreddit_counts,
                                selected_post_ids, s)
            ELSE diversity_walk(
                    candidates, i + 1, Append(selected, candidate),
                    [x \in DOMAIN subreddit_counts \cup {subreddit} |->
                        IF x = subreddit THEN current_count + 1
                        ELSE subreddit_counts[x]],
                    IF post_id # "" THEN selected_post_ids \cup {post_id}
                    ELSE selected_post_ids,
                    s)

\* diversity_select_node: the candidates it returns
diversity_select(candidates, s) ==
    diversity_walk(candidates, 1, <<>>, <<>>, {}, s)

(***************************************************************************)
(* Quality scoring (services/quality_scorer.py).  Raw weights are in       *)
(* hundredths, component scores in tenths; a candidate's signals record    *)
(* names, for each factor, the branch of the factor's function that its    *)
(* upstream data selects ("error" when reading the data raises).           *)
(***************************************************************************)
Factors ==
    {"upvote", "karma", "freshness", "velocity", "question", "depth",
     "historical"}

\* config.py score_weight_*
DefaultWeights ==
    [f \in Factors |->
        CASE f = "upvote" -> 15
          [] f = "karma" -> 10
          [] f = "freshness" -> 20
          [] f = "velocity" -> 15
          [] f = "question" -> 15
          [] f = "depth" -> 10
          [] f = "historical" -> 15]

Weighted(w, x) ==
    x["upvote"] * w["upvote"] + x["karma"] * w["karma"]
        + x["freshness"] * w["freshness"] + x["velocity"] * w["velocity"]
        + x["question"] * w["question"] + x["depth"] * w["depth"]
        + x["historical"] * w["historical"]

Ones == [f \in Factors |-> 1]

\* the divisor with no special case for a zero sum
total_weight_plain(weights) == Weighted(weights, Ones)

\* QualityScorer.__init__: the divisor of the normalization
total_weight(weights) ==
    IF Weighted(weights, Ones) = 0 THEN 1 ELSE Weighted(weights, Ones)

_score_upvote_ratio(band) ==
    CASE band = "excellent" -> 10
      [] band = "good" -> 8
      [] band = "mixed" -> 5
      [] band = "low" -> 2
      [] band = "error" -> 5

_score_author_karma(band) ==
    CASE band = "deleted" -> 0
      [] band = "established" -> 10
      [] band = "active" -> 8
      [] band = "regular" -> 5
      [] band = "new" -> 3
      [] band = "error" -> 5

_score_freshness(band) ==
    CASE band = "hot" -> 10
      [] band = "active" -> 8
      [] band = "warm" -> 6
      [] band = "cooling" -> 4
      [] band = "stale" -> 2
      [] band = "error" -> 5

_score_velocity(band) ==
    CASE band = "viral" -> 10
      [] band = "high" -> 8
      [] band = "moderate" -> 6
      [] band = "low" -> 4
      [] band = "minimal" -> 2
      [] band = "error" -> 5

\* signals: the subset of {"question_mark", "help", "problem"} found, or
\* {"error"}
_score_question_signal(signals) ==
    IF "error" \in signals THEN 5
    ELSE LET score == (IF "question_mark" \in signals THEN 4 ELSE 0)
                        + (IF "help" \in signals THEN 3 ELSE 0)
                        + (IF "problem" \in signals THEN 3 ELSE 0)
         IN  IF score = 0 THEN 2 ELSE Min(score, 10)

_score_thread_depth(band) ==
    CASE band = "ideal" -> 10
      [] band = "early" -> 8
      [] band = "crowded" -> 7
      [] band = "too_early" -> 4
      [] band = "overcrowded" -> 3
      [] band = "error" -> 5


\* band is NoTrackerScore or the tracker's score in tenths
_score_historical(band) == IF band = NoTrackerScore THEN 5 ELSE band

ComponentScores(signals) ==
    [f \in Factors |->
        CASE f = "upvote" -> _score_upvote_ratio(signals.upvote)
          [] f = "karma" -> _score_author_karma(signals.karma)
          [] f = "freshness" -> _score_freshness(signals.freshness)
          [] f = "velocity" -> _score_velocity(signals.velocity)
          [] f = "question" -> _score_question_signal(signals.question)
          [] f = "depth" -> _score_thread_depth(signals.depth)
          [] f = "historical" -> _score_historical(signals.historical)]

\* QualityScorer.score_candidate: the sum of component score times raw
\* weight over ten times the divisor
score_candidate(candidate, s) ==
    [candidate EXCEPT !.quality_score =
        [num |-> Weighted(s.weights, ComponentScores(candidate.signals)),
         den |-> 10 * total_weight(s.weights)]]

\* score_candidates_node: the candidates it leaves in the state
score_candidates(candidates, s) ==
    IF ~s.quality_scoring_enabled \/ candidates = <<>> THEN candidates
    ELSE [i \in 1..Len(candidates) |-> score_candidate(candidates[i], s)]

\* Settings with the defaults of config.py
DefaultSettings ==
    [weights |-> DefaultWeights,
     quality_scoring_enabled |-> TRUE,
     max_comments_per_run |-> max_comments_per_run,
     post_reply_ratio |-> post_reply_ratio,
     max_post_replies_per_run |-> max_post_replies_per_run,
     max_comment_replies_per_run |-> max_comment_replies_per_run,
     score_top_n_random |-> score_top_n_random,
     max_per_subreddit |-> max_per_subreddit,
     diversity_quality_boost_threshold |-> diversity_quality_boost_threshold]

\* What has happened in a run so far: whether a guarded client call has
\* raised SafetyLockoutException and the upstream requests attempted since,
\* the candidates that left diversity_select_node, the candidates handed to
\* the dispatch nodes, the drafts saved, and whether check_daily_limit_node
\* has found the daily count at the maximum.
NewLog ==
    [tripped |-> FALSE,
     after_trip |-> 0,
     admitted |-> <<>>,
     dispatched |-> <<>>,
     failed |-> 0,
     enqueued |-> 0,
     notified |-> 0,
     gate_closed |-> FALSE,
     late |-> 0]

\* AgentState as WorkflowRunner.run creates it, before the first node;
\* final_state is the runner's view of the last streamed update, result
\* the RunResult once run() has returned
NewRun ==
    [pc |-> "fetch_candidates",
     post_candidates |-> <<>>,
     comment_candidates |-> <<>>,
     candidates |-> <<>>,
     current_candidate |-> NULL,
     context |-> None,
     draft |-> NULL,
     errors |-> <<>>,
     should_continue |-> TRUE,
     processed_count |-> 0,
     final_state |-> [processed_count |-> 0, errors |-> <<>>],
     result |-> NULL,
     log |-> NewLog]

\* no run in progress
NoRun == [NewRun EXCEPT !.pc = "idle"]

\* RunResult compiled from the last streamed update
CompileResults(final_state) ==
    [processed_count |-> final_state.processed_count,
     error_count |-> Len(final_state.errors),
     errors |-> final_state.errors]

\* the body of the loop over compiled.stream(state) in WorkflowRunner.run,
\* for a step whose node returned an update with the given processed_count
\* and errors (0 and [] when the update has no such key); next is the node
\* the graph's edges lead to, or "END"
RunnerStep(r, processed_count, errors, next) ==
    LET final_state == [processed_count |-> processed_count,
                        errors |-> errors]
    IN  IF processed_count >= settings.max_comments_per_run \/ next = "END"
        THEN [r EXCEPT !.pc = "done",
                       !.final_state = final_state,
                       !.result = CompileResults(final_state)]
        ELSE [r EXCEPT !.pc = next, !.final_state = final_state]

NodeRet(node, input, upstream) ==
    [op |-> node, val |-> None, upstream |-> upstream, input |-> input]

\* diversity_select_node, then the runner's loop body
DiversitySelect ==
    /\ run.pc = "diversity_select"
    /\ run' = RunnerStep(
                IF run.candidates = <<>> THEN run
                ELSE [run EXCEPT
                        !.candidates =
                            diversity_select(run.candidates, settings),
                        !.log.admitted =
                            diversity_select(run.candidates, settings)],
                0, <<>>, "check_daily_limit")
    /\ ret' = NodeRet("diversity_select", run.candidates, 0)
    /\ UNCHANGED <<agents, engagement, settings, now, dbvars, client, background_tasks>>

\* score_candidates_node, then the runner's loop body
ScoreCandidates ==
    /\ run.pc = "score_candidates"
    /\ run' = RunnerStep(
                [run EXCEPT !.candidates =
                                score_candidates(run.candidates, settings)],
                0, <<>>, "filter_candidates")
    /\ ret' = NodeRet("score_candidates", run.candidates, 0)
    /\ UNCHANGED <<agents, engagement, settings, now, dbvars, client, background_tasks>>

(***************************************************************************)
(* The remaining nodes of the workflow graph (workflow/nodes.py) with the  *)
(* edges of workflow/graph.py.  Each action is one streamed step: the node *)
(* and the body of the runner's loop.                                      *)
(***************************************************************************)
\* the fields of a sequence of client calls that the run keeps
Calls(result) ==
    [client |-> result.client, upstream |-> result.upstream,
     tripped |-> result.tripped, after_trip |-> result.after_trip]

\* the log after a node that made the client calls F
Logged(log, F) ==
    [log EXCEPT !.tripped = F.tripped, !.after_trip = F.after_trip]

\* the calls of the run so far, as seen by a node that uses client c
CallsSoFar(c, log) ==
    [client |-> c, upstream |-> 0, tripped |-> log.tripped,
     after_trip |-> log.after_trip]

\* deduplicate() of fetch_candidates_node: the first candidate of each id
RECURSIVE deduplicate_from(_, _, _)
deduplicate_from(candidates, i, unique) ==
    IF i > Len(candidates) THEN unique
    ELSE deduplicate_from(
            candidates, i + 1,
            IF \E j \in 1..Len(unique) :
                    unique[j].reddit_id = candidates[i].reddit_id
            THEN unique ELSE Append(unique, candidates[i]))

deduplicate(candidates) == deduplicate_from(candidates, 1, <<>>)

\* "ok" is an inbox with one unread reply, "none" an empty inbox
InboxOutcomes == {"ok", "none", "403_at_call"}
RunListingOutcomes == {"posts", "empty", "403_at_call"}

\* fetch_candidates_node, then the runner's loop body
FetchCandidates ==
    /\ run.pc = "fetch_candidates"
    /\ \E inbox \in InboxOutcomes,
          post_listing \in [Subreddits -> RunListingOutcomes],
          comment_listing \in [Subreddits -> RunListingOutcomes],
          expansion \in [Subreddits -> {"ok", "error"}] :
        LET cleared == clear_cache(client)
            inbox_result == fetch_inbox_replies(cleared, inbox)
            inbox_candidates ==
                IF inbox_result.val = "ok" /\ inbox = "ok"
                THEN <<[InboxReply EXCEPT !.priority = "HIGH"]>>
                ELSE <<>>
            rising_posts ==
                fetch_rising_posts_as_candidates_after(
                    AfterCall(CallsSoFar(cleared, run.log), inbox_result),
                    post_listing)
            rising_comments ==
                fetch_rising_candidates_after(Calls(rising_posts),
                                              comment_listing, expansion)
            errors ==
                IF inbox_result.val = "ok" THEN <<>>
                ELSE <<"Inbox fetch failed">>
            state ==
                [run EXCEPT
                    !.post_candidates = deduplicate(rising_posts.candidates),
                    !.comment_candidates =
                        deduplicate(inbox_candidates
                                        \o rising_comments.candidates),
                    !.candidates = <<>>,
                    !.errors = IF errors # <<>> THEN run.errors \o errors
                               ELSE @,
                    !.log = Logged(@, rising_comments)]
        IN  /\ client' = rising_comments.client
            /\ run' = RunnerStep(
                        state, 0,
                        IF errors # <<>> THEN state.errors ELSE <<>>,
                        "select_by_ratio")
            /\ ret' = [op |-> "fetch_candidates",
                       val |-> inbox_result.val,
                       upstream |-> rising_comments.upstream,
                       post_listing |-> post_listing]
    /\ UNCHANGED <<agents, engagement, settings, now, dbvars, background_tasks>>

\* round(n / d) for n >= 0, d > 0: the nearest integer, a tie to the even one
round(n, d) ==
    LET q == n \div d
        r == n % d
    IN  IF 2 * r > d THEN q + 1
        ELSE IF 2 * r < d THEN q
        ELSE IF q % 2 = 0 THEN q ELSE q + 1

Take(candidates, n) == SubSeq(candidates, 1, n)

\* select_by_ratio_node: the candidates it leaves in the state
select_by_ratio(post_candidates, comment_candidates, s) ==
    LET max_per_run == s.max_comments_per_run
        target_posts ==
            Min(round(max_per_run * s.post_reply_ratio, 100),
                Min(s.max_post_replies_per_run, Len(post_candidates)))
        target_comments ==
            Min(max_per_run - target_posts,
                Min(s.max_comment_replies_per_run, Len(comment_candidates)))
        extra_comments ==
            IF /\ target_posts < (max_per_run * s.post_reply_ratio) \div 100
               /\ Len(comment_candidates) > target_comments
            THEN Min(max_per_run - target_posts - target_comments,
                     Len(comment_candidates) - target_comments)
            ELSE 0
    IN  Take(post_candidates, target_posts)
            \o Take(comment_candidates, target_comments + extra_comments)

\* select_by_ratio_node, then the runner's loop body
SelectByRatio ==
    /\ run.pc = "select_by_ratio"
    /\ run' = RunnerStep(
                [run EXCEPT !.candidates =
                    select_by_ratio(run.post_candidates,
                                    run.comment_candidates, settings)],
                0, <<>>, "score_candidates")
    /\ ret' = NodeRet("select_by_ratio", run.candidates, 0)
    /\ UNCHANGED <<agents, engagement, settings, now, dbvars, client, background_tasks>>

\* filter_candidates_node keeps a candidate that has not been replied to
\* and is not in cooldown
PassesFilter(candidate) ==
    /\ ~has_replied(candidate.reddit_id)
    /\ is_retryable(candidate.reddit_id)

\* filter_candidates_node, then the runner's loop body
FilterCandidates ==
    /\ run.pc = "filter_candidates"
    /\ run' = RunnerStep(
                [run EXCEPT !.candidates = SelectSeq(run.candidates, PassesFilter)],
                0, <<>>, "check_rules")
    /\ ret' = NodeRet("filter_candidates", run.candidates, 0)
    /\ UNCHANGED <<agents, engagement, settings, now, dbvars, client, background_tasks>>

\* RuleEngine.check_compliance as main.py builds the engine: an empty
\* in-memory cache and no fetch function, so no rules are known
check_compliance(subreddit) == TRUE

Compliant(candidate) == check_compliance(candidate.subreddit)

\* check_rules_node, then the runner's loop body
CheckRules ==
    /\ run.pc = "check_rules"
    /\ run' = RunnerStep(
                [run EXCEPT !.candidates = SelectSeq(run.candidates, Compliant)],
                0, <<>>, "sort_by_score")
    /\ ret' = NodeRet("check_rules", run.candidates, 0)
    /\ UNCHANGED <<agents, engagement, settings, now, dbvars, client, background_tasks>>

\* a sorts strictly before b in the key (priority_order, -quality_score)
KeyLess(a, b) ==
    \/ (IF a.priority = "HIGH" THEN 0 ELSE 1)
            < (IF b.priority = "HIGH" THEN 0 ELSE 1)
    \/ /\ a.priority = "HIGH" <=> b.priority = "HIGH"
       /\ a.quality_score.num * b.quality_score.den
            > b.quality_score.num * a.quality_score.den

\* candidate put into a sorted sequence behind every element that does not
\* sort after it
Inserted(sorted, candidate) ==
    LET behind == {i \in 1..Len(sorted) : ~KeyLess(candidate, sorted[i])}
        n == Cardinality(behind)
    IN  SubSeq(sorted, 1, n) \o <<candidate>>
            \o SubSeq(sorted, n + 1, Len(sorted))

\* sorted(): stable, ascending in the key
RECURSIVE sorted_from(_, _, _)
sorted_from(candidates, i, sorted) ==
    IF i > Len(candidates) THEN sorted
    ELSE sorted_from(candidates, i + 1, Inserted(sorted, candidates[i]))

sorted(candidates) == sorted_from(candidates, 1, <<>>)

\* random.shuffle of the first top_n: every order of them
Shuffles(candidates, top_n) ==
    {[i \in 1..Len(candidates) |->
        IF i <= top_n THEN candidates[order[i]] ELSE candidates[i]] :
     order \in Permutations(1..top_n)}

\* the orders sort_by_score_node can leave: sorted, or with the first top_n
\* shuffled when there are that many
sort_by_score(candidates, s) ==
    {sorted(candidates)} \cup
    (IF Len(candidates) >= s.score_top_n_random
     THEN Shuffles(sorted(candidates), s.score_top_n_random) ELSE {})

\* sort_by_score_node, then the runner's loop body
SortByScore ==
    /\ run.pc = "sort_by_score"
    /\ \E sorted_candidates \in sort_by_score(run.candidates, settings) :
        run' = RunnerStep(
                IF run.candidates = <<>> THEN run
                ELSE [run EXCEPT !.candidates = sorted_candidates],
                0, <<>>, "diversity_select")
    /\ ret' = NodeRet("sort_by_score", run.candidates, 0)
    /\ UNCHANGED <<agents, engagement, settings, now, dbvars, client, background_tasks>>

\* check_daily_limit_node and the conditional edge behind it, then the
\* runner's loop body
CheckDailyLimit ==
    /\ run.pc = "check_daily_limit"
    /\ LET can_post == can_post_today(daily_stats)
       IN  run' = RunnerStep(
                    [run EXCEPT !.should_continue = can_post,
                                !.log.gate_closed =
                                    @ \/ get_daily_count(daily_stats)
                                            >= max_daily],
                    0, <<>>,
                    IF can_post THEN "select_candidate" ELSE "END")
    /\ ret' = [op |-> "check_daily_limit",
               val |-> Bool(can_post_today(daily_stats)), upstream |-> 0]
    /\ UNCHANGED <<agents, engagement, settings, now, dbvars, client, background_tasks>>

\* a selection that leaves the selected candidate in the list
remaining_with_head(candidates) == candidates

\* state.candidates[1:]
remaining(candidates) == Tail(candidates)

\* select_candidate_node and the conditional edge behind it, then the
\* runner's loop body
SelectCandidate ==
    /\ run.pc = "select_candidate"
    /\ run' =
        IF run.candidates = <<>>
        THEN RunnerStep([run EXCEPT !.current_candidate = NULL,
                                    !.should_continue = FALSE],
                        0, <<>>, "END")
        ELSE RunnerStep(
                [run EXCEPT
                    !.current_candidate = Head(run.candidates),
                    !.candidates = remaining(run.candidates),
                    !.log.dispatched =
                        Append(@, Head(run.candidates).reddit_id),
                    !.log.late =
                        @ + (IF \/ run.log.gate_closed
                                \/ run.processed_count
                                        >= settings.max_comments_per_run
                             THEN 1 ELSE 0)],
                0, <<>>, "build_context")
    /\ ret' = NodeRet("select_candidate", run.candidates, 0)
    /\ UNCHANGED <<agents, engagement, settings, now, dbvars, client, background_tasks>>

\* what the node returns when a dispatch step raises: the error joins the
\* state's errors
WithError(r, error) ==
    [r EXCEPT !.errors = Append(@, error), !.log.failed = @ + 1]

\* the client call of build_context_node for the candidate; builder is the
\* outcome of ContextBuilder.build_context
context_data(candidate, parents, outcome) ==
    IF candidate.candidate_type = "post"
    THEN get_post_context(client)
    ELSE get_comment_context(client, parents, outcome)

\* build_context_node, then the runner's loop body
BuildContext ==
    /\ run.pc = "build_context"
    /\ \E parents \in 0..1, outcome \in {"ok", "error"},
          builder \in {"ok", "error"} :
        LET candidate == run.current_candidate
            result == context_data(candidate, parents, outcome)
            built == result.val = "ok" /\ builder = "ok"
            called == [run EXCEPT !.log =
                        Logged(@, AfterCall(CallsSoFar(client, run.log),
                                            result))]
            state ==
                IF candidate = NULL THEN [run EXCEPT !.context = None]
                ELSE IF built THEN [called EXCEPT !.context = "context"]
                ELSE WithError([called EXCEPT !.context = None],
                               "Context build failed")
        IN  /\ client' = IF candidate = NULL THEN client ELSE result.client
            /\ run' = RunnerStep(
                        state, 0,
                        IF candidate # NULL /\ ~built THEN state.errors
                        ELSE <<>>,
                        "generate_draft")
            /\ ret' = [op |-> "build_context",
                       val |-> IF candidate = NULL THEN None
                               ELSE IF result.val # "ok" THEN result.val
                               ELSE IF builder # "ok" THEN "Exception"
                               ELSE "ok",
                       upstream |-> IF candidate = NULL THEN 0
                                    ELSE result.upstream]
    /\ UNCHANGED <<agents, engagement, settings, now, dbvars, background_tasks>>

\* the Draft the generator returns for a candidate
GeneratedDraft(candidate) ==
    [draft_id |-> uuid4, reddit_id |-> candidate.reddit_id,
     content |-> ContentOf[uuid4]]

\* generate_draft_node, then the runner's loop body
GenerateDraft ==
    /\ run.pc = "generate_draft"
    /\ UnusedDraftIds # {}
    /\ \E outcome \in {"ok", "error"} :
        LET skipped == run.current_candidate = NULL \/ run.context = None
            state ==
                IF skipped THEN [run EXCEPT !.draft = NULL]
                ELSE IF outcome = "ok"
                THEN [run EXCEPT
                        !.draft = GeneratedDraft(run.current_candidate)]
                ELSE WithError([run EXCEPT !.draft = NULL],
                               "Generation failed")
        IN  /\ run' = RunnerStep(
                        state, 0,
                        IF ~skipped /\ outcome = "error" THEN state.errors
                        ELSE <<>>,
                        "notify_human")
            /\ ret' = [op |-> "generate_draft",
                       val |-> IF skipped THEN None ELSE outcome,
                       upstream |-> 0]
    /\ UNCHANGED <<agents, engagement, settings, now, dbvars, client, background_tasks>>

\* a loop that goes on only while the state has no error
should_continue_until_error(state) ==
    IF ~state.should_continue \/ state.errors # <<>> THEN "END"
    ELSE IF state.candidates = <<>> /\ state.current_candidate = NULL
    THEN "END"
    ELSE "check_daily_limit"

\* should_continue behind notify_human, through the edge map of graph.py
should_continue(state) ==
    IF ~state.should_continue THEN "END"
    ELSE IF state.candidates = <<>> /\ state.current_candidate = NULL
    THEN "END"
    ELSE "check_daily_limit"

\* notify_human_node, then the runner's loop body.  save, performance and
\* notification are the outcomes of the database commit of save_draft, of
\* record_performance_outcome and of send_draft_notification.
NotifyHuman ==
    /\ run.pc = "notify_human"
    /\ \E save \in {"ok", "error"}, performance \in {"ok", "error"},
          notification \in {"ok", "error"} :
        LET draft == run.draft
            skipped == draft = NULL \/ run.current_candidate = NULL
            duplicate ==
                ~skipped /\ save = "ok"
                    /\ IntegrityError(draft.draft_id, draft.reddit_id)
            saved == ~skipped /\ save = "ok" /\ ~duplicate
            recorded == saved /\ performance = "ok"
            notified == saved /\ notification = "ok"
            raised == ~skipped /\ ~duplicate /\ ~notified
            counted ==
                [run EXCEPT
                    !.log.enqueued = @ + (IF saved THEN 1 ELSE 0),
                    !.log.notified = @ + (IF notified THEN 1 ELSE 0)]
            state ==
                IF skipped \/ duplicate THEN run
                ELSE IF notified
                THEN [counted EXCEPT !.processed_count = @ + 1]
                ELSE WithError(counted, "Notification failed")
        IN  /\ Tokens \ UsedTokens # {}
            /\ draft_queue' =
                IF saved
                THEN [draft_queue EXCEPT ![draft.draft_id] =
                        NewDraft(draft.reddit_id, draft.content, "PENDING",
                                 token_urlsafe)]
                ELSE draft_queue
            /\ performance_history' =
                IF recorded
                THEN record_performance_outcome(performance_history,
                                                draft.draft_id, "PENDING")
                ELSE performance_history
            /\ run' = RunnerStep(
                        state,
                        IF notified THEN state.processed_count ELSE 0,
                        IF raised THEN state.errors ELSE <<>>,
                        should_continue(state))
            /\ ret' = [op |-> "notify_human",
                       val |-> IF skipped THEN None
                               ELSE IF duplicate THEN "duplicate"
                               ELSE IF notified THEN "notified"
                               ELSE "Notification failed",
                       upstream |-> 0,
                       draft_id |-> IF skipped THEN None ELSE draft.draft_id]
    /\ UNCHANGED <<agents, engagement, settings, now, replied_items, daily_stats, client,
                   background_tasks>>

(***************************************************************************)
(* DraftGenerator                                                          *)
(***************************************************************************)
\* What llm.invoke can give: a reply of `text` characters between `padding`
\* characters of surrounding whitespace, with or without a banned phrase, or
\* an exception of the provider.
Replies ==
    {[text |-> 0, padding |-> 2, banned |-> FALSE, raises |-> FALSE],
     [text |-> 19, padding |-> 2, banned |-> FALSE, raises |-> FALSE],
     [text |-> 20, padding |-> 0, banned |-> FALSE, raises |-> FALSE],
     [text |-> 20, padding |-> 0, banned |-> TRUE, raises |-> FALSE],
     [text |-> 2000, padding |-> 2, banned |-> FALSE, raises |-> FALSE],
     [text |-> 2001, padding |-> 0, banned |-> FALSE, raises |-> FALSE],
     [text |-> 0, padding |-> 0, banned |-> FALSE, raises |-> TRUE]}

\* str.strip() and len()
strip(content) == [content EXCEPT !.padding = 0]
len(content) == content.text + content.padding

NewGenerator(retries) ==
    [max_retries |-> retries, invoked |-> <<>>, val |-> None, draft |-> NULL]

\* the ContentFilterError that _validate_content raises, or "ok"
validate_content(content) ==
    IF len(content) < min_length THEN "Content too short"
    ELSE IF len(content) > max_length THEN "Content too long"
    ELSE IF content.banned THEN "Content contains banned phrase"
    ELSE IF strip(content).text = 0 THEN "Content is empty"
    ELSE "ok"

\* the loop of generate from `attempt` on; llm[i] is what the i-th call of
\* llm.invoke gives
RECURSIVE generate_from(_, _, _)
generate_from(g, attempt, llm) ==
    IF attempt >= g.max_retries
    THEN [g EXCEPT !.val = "ContentFilterError"]
    ELSE LET response == llm[attempt + 1]
             invoked == [g EXCEPT !.invoked = Append(@, response)]
             content == strip(response)
         IN  IF response.raises
             THEN [invoked EXCEPT !.val = "Exception"]
             ELSE IF validate_content(content) = "ok"
             THEN [invoked EXCEPT !.val = "Draft", !.draft = content]
             ELSE generate_from(invoked, attempt + 1, llm)

\* a loop that runs once more than max_retries
generate_once_more(g, llm) ==
    [generate_from([g EXCEPT !.max_retries = @ + 1], 0, llm)
        EXCEPT !.max_retries = g.max_retries]

generate(g, llm) == generate_from(g, 0, llm)

Generate ==
    /\ \E llm \in [1..(max_retries + 1) -> Replies] :
        /\ generator' = generate(NewGenerator(generator.max_retries), llm)
        /\ ret' = [op |-> "generate", val |-> generator'.val,
                   upstream |-> Len(generator'.invoked)]
    /\ UNCHANGED <<rule_engine, publishers, engagement, pipeline, now, dbvars,
                   client, background_tasks>>

(***************************************************************************)
(* RuleEngine and RuleCache                                                *)
(***************************************************************************)
\* the ways a caller writes a subreddit: "name", "r/name", "Name", "r/Name"
Spellings ==
    [name : Subreddits, prefix : BOOLEAN, capitals : BOOLEAN]

\* subreddit.lower().replace('r/', '')
normalised(subreddit) == subreddit.name

\* rule texts with and without a bot restriction
RuleTexts == {"no bots", "be kind"}
has_bot_restriction(rules) == rules = "no bots"

NewRuleEngine(fetch_rules_fn) ==
    [fetch_rules_fn |-> fetch_rules_fn,
     cache |-> [s \in Subreddits |-> NULL]]

\* a cache that misses on every lookup
RuleCache_get_miss(cache, subreddit) == NULL

\* RuleCache.get: the entry, or NULL when absent or stale
RuleCache_get(cache, subreddit) ==
    LET cached == cache[normalised(subreddit)]
    IN  IF cached = NULL THEN NULL
        ELSE IF now - cached.timestamp > max_age_hours * MinutesPerHour
        THEN NULL
        ELSE cached

RuleCache_set(cache, subreddit, rules, status, timestamp) ==
    [cache EXCEPT ![normalised(subreddit)] =
        [rules |-> rules, status |-> status, timestamp |-> timestamp]]

FetchOutcomes == RuleTexts \cup {"Exception"}

\* RuleEngine.check_compliance with the answer `fetched` of the fetch function
check_compliance_of(engine, subreddit, fetched) ==
    LET cached == RuleCache_get(engine.cache, subreddit)
        status == IF has_bot_restriction(fetched) THEN "RESTRICTED"
                  ELSE "ALLOWED"
    IN  IF cached # NULL
        THEN [val |-> cached.status # "RESTRICTED", fetches |-> 0,
              engine |-> engine]
        ELSE IF ~engine.fetch_rules_fn
        THEN [val |-> TRUE, fetches |-> 0, engine |-> engine]
        ELSE IF fetched = "Exception"
        THEN [val |-> TRUE, fetches |-> 1, engine |-> engine]
        ELSE [val |-> status # "RESTRICTED", fetches |-> 1,
              engine |-> [engine EXCEPT !.cache =
                            RuleCache_set(@, subreddit, fetched, status, now)]]

CheckCompliance ==
    /\ \E subreddit \in Spellings, fetched \in FetchOutcomes :
        LET result == check_compliance_of(rule_engine, subreddit, fetched)
        IN  /\ rule_engine' = result.engine
            /\ ret' = [op |-> "check_compliance",
                       val |-> IF result.val THEN "True" ELSE "False",
                       upstream |-> result.fetches,
                       subreddit |-> normalised(subreddit)]
    /\ UNCHANGED <<generator, publishers, engagement, pipeline, now, dbvars,
                   client, background_tasks>>

\* RuleCache.set by a caller, with or without a timestamp of its own
CacheSet ==
    /\ \E subreddit \in Spellings, rules \in RuleTexts,
          status \in {"ALLOWED", "RESTRICTED"}, timestamp \in {0, now} :
        rule_engine' =
            [rule_engine EXCEPT !.cache =
                RuleCache_set(@, subreddit, rules, status, timestamp)]
    /\ ret' = [op |-> "cache_set", val |-> None, upstream |-> 0]
    /\ UNCHANGED <<generator, publishers, engagement, pipeline, now, dbvars,
                   client, background_tasks>>

\* no generate call made yet, and the engine as main.py builds it
Agents ==
    /\ generator = NewGenerator(max_retries)
    /\ rule_engine = NewRuleEngine(FALSE)
    /\ publishers = NoPublishers(0)

NoRet == [op |-> "none", val |-> None, upstream |-> 0]

EmptyDb ==
    /\ now = 0
    /\ draft_queue = [d \in DraftIds |-> NULL]
    /\ replied_items = [r \in LedgerIds |-> NULL]
    /\ daily_stats = [d \in Days |-> 0]
    /\ performance_history = [d \in DraftIds |-> None]
    /\ engagement = [d \in DraftIds |-> NULL]
    /\ background_tasks = {}
    /\ ret = NoRet

\* no workflow run in progress, default settings
Idle ==
    /\ run = NoRun
    /\ settings = DefaultSettings

Init ==
    /\ EmptyDb
    /\ Agents
    /\ Idle
    /\ client = FreshClient(DEFAULT_RISK_THRESHOLD)

\* the approval flow at one instant: drafts, callbacks and publishing
Next ==
    \/ SaveDraft
    \/ UpdateDraftStatus
    \/ GetDraftByToken
    \/ ProcessCallback
    \/ HandleApprovalLink
    \/ PublishApproved
    \/ PublishDraftAsync

Spec == Init /\ [][Next]_vars

\* the draft queue and its approval tokens over the validity window
NextToken ==
    \/ SaveDraft
    \/ UpdateDraftStatus
    \/ GetDraftByToken
    \/ HandleApprovalLink
    \/ Tick

SpecToken == Init /\ [][NextToken]_vars

\* the replay ledger and its cooldowns
NextReplay ==
    \/ MarkReplied
    \/ IsRetryable
    \/ TickCooldown

SpecReplay == Init /\ [][NextReplay]_vars

\* the upstream client; the risk threshold is a setting
InitClient ==
    /\ EmptyDb
    /\ Agents
    /\ Idle
    /\ \E threshold \in Thresholds : client = FreshClient(threshold)

NextClient ==
    \/ FetchInboxReplies
    \/ FetchRisingPosts
    \/ FetchRisingCandidates
    \/ PostComment
    \/ GetCommentContext
    \/ GetPostContext
    \/ ClearCache
    \/ UpdateRateLimit

SpecClient == InitClient /\ [][NextClient]_vars

\* One workflow run as main.py starts it: a fresh client, the database as
\* earlier runs left it.  The risk threshold is a setting; the day's count
\* is zero or at the maximum; the rising comment may have been answered.
RunThresholds == {20, DEFAULT_RISK_THRESHOLD}

InitRun ==
    /\ now = 0
    /\ draft_queue = [d \in DraftIds |-> NULL]
    /\ \E answered \in BOOLEAN :
        replied_items =
            IF answered
            THEN mark_replied([r \in LedgerIds |-> NULL], "c_b", "SUCCESS",
                              "comment")
            ELSE [r \in LedgerIds |-> NULL]
    /\ \E count \in {0, max_daily} :
        daily_stats = [d \in Days |-> IF d = Day(0) THEN count ELSE 0]
    /\ performance_history = [d \in DraftIds |-> None]
    /\ engagement = [d \in DraftIds |-> NULL]
    /\ Agents
    /\ background_tasks = {}
    /\ ret = NoRet
    /\ run = NewRun
    /\ settings = DefaultSettings
    /\ \E threshold \in RunThresholds : client = FreshClient(threshold)

NextRun ==
    \/ FetchCandidates
    \/ SelectByRatio
    \/ ScoreCandidates
    \/ FilterCandidates
    \/ CheckRules
    \/ SortByScore
    \/ DiversitySelect
    \/ CheckDailyLimit
    \/ SelectCandidate
    \/ BuildContext
    \/ GenerateDraft
    \/ NotifyHuman

SpecRun == InitRun /\ [][NextRun]_vars

\* The dispatch loop on its own: the run as the diversity stage leaves it,
\* with up to three admitted candidates, on a day with no post yet or one
\* that has reached the limit.
Admitted ==
    <<[InboxReply EXCEPT !.priority = "HIGH"], CandidatePost("sub_a"),
      CandidateComment("r_rising", "sub_a", "p_a")>>

InitLoop ==
    /\ now = 0
    /\ draft_queue = [d \in DraftIds |-> NULL]
    /\ replied_items = [r \in LedgerIds |-> NULL]
    /\ \E count \in {0, max_daily} :
        daily_stats = [d \in Days |-> IF d = Day(0) THEN count ELSE 0]
    /\ performance_history = [d \in DraftIds |-> None]
    /\ engagement = [d \in DraftIds |-> NULL]
    /\ Agents
    /\ background_tasks = {}
    /\ ret = NoRet
    /\ \E n \in 0..Min(MaxCandidates, Len(Admitted)) :
        run = [NewRun EXCEPT !.pc = "check_daily_limit",
                             !.candidates = Take(Admitted, n)]
    /\ settings = DefaultSettings
    /\ client = FreshClient(DEFAULT_RISK_THRESHOLD)

NextLoop ==
    \/ CheckDailyLimit
    \/ SelectCandidate
    \/ BuildContext
    \/ GenerateDraft
    \/ NotifyHuman

\* the graph executor runs the next node of a run that has not ended
SpecLoop == InitLoop /\ [][NextLoop]_vars /\ WF_vars(NextLoop)

\* the instants around the end of the observation delay
EngagementInstants == {1440, 1441}

TickEngagement ==
    /\ \E t \in EngagementInstants : t > now /\ now' = t
    /\ UNCHANGED <<agents, engagement, pipeline, dbvars, client, background_tasks, ret>>

\* published drafts under the engagement checker, over the observation delay
NextEngagement ==
    \/ SaveDraft
    \/ ProcessCallback
    \/ PublishApproved
    \/ TickEngagement
    \/ CheckPendingEngagements

SpecEngagement == Init /\ [][NextEngagement]_vars

\* The ratio stage on its own: every pool of up to two rising posts and up
\* to three comments, under every ratio of RatioInputs (percent).
RatioInputs == {0, 30, 50, 70, 100}

Pools(candidates) ==
    {pool \in UNION {[1..n -> candidates] : n \in 0..Cardinality(candidates)} :
        \A i, j \in 1..Len(pool) : i < j => pool[i] # pool[j]}

PostPools == Pools({CandidatePost(subreddit) : subreddit \in Subreddits})

CommentPools ==
    Pools({[InboxReply EXCEPT !.priority = "HIGH"],
           CandidateComment("r_rising", "sub_a", "p_a"),
           CandidateComment("c_b", "sub_b", "p_b")})

InitRatio ==
    /\ EmptyDb
    /\ Agents
    /\ client = FreshClient(DEFAULT_RISK_THRESHOLD)
    /\ \E post_candidates \in PostPools, comment_candidates \in CommentPools :
        run = [NewRun EXCEPT !.pc = "select_by_ratio",
                             !.post_candidates = post_candidates,
                             !.comment_candidates = comment_candidates]
    /\ \E ratio \in RatioInputs :
        settings = [DefaultSettings EXCEPT !.post_reply_ratio = ratio]

SpecRatio == InitRatio /\ [][SelectByRatio]_vars

\* A run that starts where an earlier run stopped: the queue already holds the
\* draft d1 that the earlier run saved for one of the identities the fetch
\* returns again, still PENDING or REJECTED by the human approver.
EarlierIdentities == {"r_inbox", "r_rising", "p_a"}

InitRerun ==
    /\ now = 0
    /\ \E reddit_id \in EarlierIdentities, status \in {"PENDING", "REJECTED"} :
        draft_queue =
            [d \in DraftIds |->
                IF d = "d1" THEN NewDraft(reddit_id, ContentOf[d], status, 1)
                ELSE NULL]
    /\ replied_items = [r \in LedgerIds |-> NULL]
    /\ daily_stats = [d \in Days |-> 0]
    /\ performance_history =
            [d \in DraftIds |-> IF d = "d1" THEN "PENDING" ELSE None]
    /\ engagement = [d \in DraftIds |-> NULL]
    /\ Agents
    /\ background_tasks = {}
    /\ ret = NoRet
    /\ run = NewRun
    /\ settings = DefaultSettings
    /\ client = FreshClient(DEFAULT_RISK_THRESHOLD)

SpecRerun == InitRerun /\ [][NextRun]_vars

\* A run on a day without posts whose fetch returns identities that earlier
\* runs have answered: the first rising post alone, or the first rising
\* post, the inbox reply and the first rising comment.
AnsweredSets == {{"p_a"}, {"p_a", "r_inbox", "r_rising"}}

InitAnswered ==
    /\ now = 0
    /\ draft_queue = [d \in DraftIds |-> NULL]
    /\ \E answered \in AnsweredSets :
        replied_items =
            [r \in LedgerIds |->
                IF r \in answered
                THEN mark_replied([x \in LedgerIds |-> NULL], r, "SUCCESS",
                                  "comment")[r]
                ELSE NULL]
    /\ daily_stats = [d \in Days |-> 0]
    /\ performance_history = [d \in DraftIds |-> None]
    /\ engagement = [d \in DraftIds |-> NULL]
    /\ Agents
    /\ background_tasks = {}
    /\ ret = NoRet
    /\ run = NewRun
    /\ settings = DefaultSettings
    /\ client = FreshClient(DEFAULT_RISK_THRESHOLD)

SpecAnswered == InitAnswered /\ [][NextRun]_vars

\* DraftGenerator.generate for every max_retries up to the default
InitGenerate ==
    /\ EmptyDb
    /\ Idle
    /\ client = FreshClient(DEFAULT_RISK_THRESHOLD)
    /\ \E retries \in 0..max_retries : generator = NewGenerator(retries)
    /\ rule_engine = NewRuleEngine(FALSE)
    /\ publishers = NoPublishers(0)

SpecGenerate == InitGenerate /\ [][Generate]_vars

\* the instants around the maximum age of an entry cached at 0 or at 1441
RuleInstants == {1439, 1440, 1441, 2881, 2882}

TickRules ==
    /\ \E t \in RuleInstants : t > now /\ now' = t
    /\ UNCHANGED <<agents, engagement, pipeline, dbvars, client,
                   background_tasks, ret>>

\* a RuleEngine with and without a fetch function
InitRules ==
    /\ EmptyDb
    /\ Idle
    /\ client = FreshClient(DEFAULT_RISK_THRESHOLD)
    /\ generator = NewGenerator(max_retries)
    /\ \E fetch_rules_fn \in BOOLEAN :
        rule_engine = NewRuleEngine(fetch_rules_fn)
    /\ publishers = NoPublishers(0)

NextRules ==
    \/ CheckCompliance
    \/ CacheSet
    \/ TickRules

SpecRules == InitRules /\ [][NextRules]_vars

\* The candidates the diversity stage is tried on: rising posts t1, t2 of
\* sub_a and t3 of sub_b, a rising comment on each, and an inbox reply in t1.
DiversityKinds ==
    {[reddit_id |-> "t1", subreddit |-> "sub_a", candidate_type |-> "post",
      post_id |-> "", thread |-> "t1", priority |-> "NORMAL"],
     [reddit_id |-> "c1", subreddit |-> "sub_a", candidate_type |-> "comment",
      post_id |-> "t1", thread |-> "t1", priority |-> "NORMAL"],
     [reddit_id |-> "i1", subreddit |-> "sub_a", candidate_type |-> "comment",
      post_id |-> "t1", thread |-> "t1", priority |-> "HIGH"],
     [reddit_id |-> "t2", subreddit |-> "sub_a", candidate_type |-> "post",
      post_id |-> "", thread |-> "t2", priority |-> "NORMAL"],
     [reddit_id |-> "c2", subreddit |-> "sub_a", candidate_type |-> "comment",
      post_id |-> "t2", thread |-> "t2", priority |-> "NORMAL"],
     [reddit_id |-> "c3", subreddit |-> "sub_b", candidate_type |-> "comment",
      post_id |-> "t3", thread |-> "t3", priority |-> "NORMAL"]}

DiversityScores == {700, 750, 900}

WithScore(kind, n) ==
    [f \in DOMAIN kind \cup {"quality_score"} |->
        IF f = "quality_score" THEN Score(n) ELSE kind[f]]

DiversityPool ==
    {WithScore(kind, n) : kind \in DiversityKinds, n \in DiversityScores}

\* five comments of one subreddit on five threads, scores 0.9 .. 0.5
DiversityExample ==
    [i \in 1..5 |->
        [reddit_id |-> <<"e1", "e2", "e3", "e4", "e5">>[i],
         subreddit |-> "sub_a",
         candidate_type |-> "comment",
         post_id |-> <<"x1", "x2", "x3", "x4", "x5">>[i],
         thread |-> <<"x1", "x2", "x3", "x4", "x5">>[i],
         priority |-> "NORMAL",
         quality_score |-> Score(1000 - 100 * i)]]

PriorityOrder(candidate) == IF candidate.priority = "HIGH" THEN 0 ELSE 1

\* a precedes-or-ties b in the key of sort_by_score_node:
\* (priority_order, -quality_score)
KeyLeq(a, b) ==
    \/ PriorityOrder(a) < PriorityOrder(b)
    \/ /\ PriorityOrder(a) = PriorityOrder(b)
       /\ a.quality_score.num * b.quality_score.den
            >= b.quality_score.num * a.quality_score.den

\* what sort_by_score_node hands over when it does not shuffle: distinct
\* identities in key order
IsSorted(candidates) ==
    /\ \A i, j \in 1..Len(candidates) :
            i < j => /\ candidates[i].reddit_id # candidates[j].reddit_id
                     /\ KeyLeq(candidates[i], candidates[j])

DiversityInputs ==
    {DiversityExample} \cup
    {candidates \in UNION {[1..n -> DiversityPool] : n \in 0..MaxCandidates} :
        IsSorted(candidates)}

DiversityThresholds == {diversity_quality_boost_threshold, 950}

InitDiversity ==
    /\ EmptyDb
    /\ Agents
    /\ client = FreshClient(DEFAULT_RISK_THRESHOLD)
    /\ \E candidates \in DiversityInputs, threshold \in DiversityThresholds :
        /\ run = [NewRun EXCEPT !.pc = "diversity_select",
                                !.candidates = candidates]
        /\ settings =
                [DefaultSettings EXCEPT
                    !.max_comments_per_run = Len(DiversityExample),
                    !.diversity_quality_boost_threshold = threshold]

\* the diversity stage on its own, over every input above
SpecDiversity == InitDiversity /\ [][DiversitySelect]_vars

\* Candidates the sort stage is tried on: an inbox reply and two rising
\* comments, in any arrival order, with low and high scores; the shuffle
\* window is the default one or a window of two.
SortPool ==
    {WithScore(kind, n) :
        kind \in {k \in DiversityKinds : k.reddit_id \in {"i1", "c1", "c2"}},
        n \in {700, 900}}

SortInputs ==
    {candidates \in UNION {[1..n -> SortPool] : n \in 0..MaxCandidates} :
        \A i, j \in 1..Len(candidates) :
            i < j => candidates[i].reddit_id # candidates[j].reddit_id}

TopNInputs == {2, score_top_n_random}

InitSort ==
    /\ EmptyDb
    /\ Agents
    /\ client = FreshClient(DEFAULT_RISK_THRESHOLD)
    /\ \E candidates \in SortInputs, top_n \in TopNInputs :
        /\ run = [NewRun EXCEPT !.pc = "sort_by_score",
                                !.candidates = candidates]
        /\ settings = [DefaultSettings EXCEPT !.score_top_n_random = top_n]

\* the sort stage on its own, over every input above
SpecSort == InitSort /\ [][SortByScore]_vars

\* A run whose client is the one an earlier run left behind, with the
\* listings that run cached; after the fetch stage the client is asked for
\* rising posts again.
InitCache ==
    /\ EmptyDb
    /\ Agents
    /\ settings = DefaultSettings
    /\ run = NewRun
    /\ \E earlier \in [Subreddits -> {"posts", "empty", "403_at_call"}] :
        client = fetch_rising_posts_as_candidates_after(
                    NewCalls(FreshClient(DEFAULT_RISK_THRESHOLD)),
                    earlier).client

\* a later call of the same run, while the request counter is in range
FetchRisingPostsAgain ==
    /\ run.pc # "fetch_candidates"
    /\ client.total_requests < 2 * MaxRequests
    /\ FetchRisingPostsCall

NextCache ==
    \/ FetchCandidates
    \/ FetchRisingPostsAgain

SpecCache == InitCache /\ [][NextCache]_vars

\* Three APPROVED drafts wait for the two publishers on a day that has no
\* post yet or is one post below the limit.
IdentityOf ==
    [d \in DraftIds |->
        CASE d = "d1" -> "r_inbox" [] d = "d2" -> "r_rising" [] OTHER -> "p_a"]

InitPublishers ==
    /\ now = 0
    /\ draft_queue =
            [d \in DraftIds |->
                TransitionedDraft(
                    NewDraft(IdentityOf[d], ContentOf[d], "PENDING", 1),
                    "APPROVED")]
    /\ replied_items = [r \in LedgerIds |-> NULL]
    /\ performance_history = [d \in DraftIds |-> "APPROVED"]
    /\ engagement = [d \in DraftIds |-> NULL]
    /\ generator = NewGenerator(max_retries)
    /\ rule_engine = NewRuleEngine(FALSE)
    /\ \E count \in {0, max_daily - 1} :
        /\ daily_stats = [d \in Days |-> IF d = Day(0) THEN count ELSE 0]
        /\ publishers = NoPublishers(count)
    /\ background_tasks = {}
    /\ ret = NoRet
    /\ Idle
    /\ client = FreshClient(DEFAULT_RISK_THRESHOLD)

NextPublishers ==
    \/ \E p \in PublisherIds : CheckLimit(p)
    \/ \E p \in PublisherIds : PostUpstream(p)
    \/ \E p \in PublisherIds : RecordPublished(p)

SpecPublishers == InitPublishers /\ [][NextPublishers]_vars

\* Candidates the scorer is tried on: the best and the worst branch of every
\* factor, every read failing, and a mixed one
SignalProfiles ==
    {[upvote |-> "excellent", karma |-> "established", freshness |-> "hot",
      velocity |-> "viral", question |-> {"question_mark", "help", "problem"},
      depth |-> "ideal", historical |-> 10],
     [upvote |-> "low", karma |-> "deleted", freshness |-> "stale",
      velocity |-> "minimal", question |-> {}, depth |-> "overcrowded",
      historical |-> 0],
     [upvote |-> "error", karma |-> "error", freshness |-> "error",
      velocity |-> "error", question |-> {"error"}, depth |-> "error",
      historical |-> NoTrackerScore],
     [upvote |-> "mixed", karma |-> "deleted", freshness |-> "hot",
      velocity |-> "viral", question |-> {"question_mark", "help", "problem"},
      depth |-> "ideal", historical |-> NoTrackerScore]}

Unscored(reddit_id, subreddit, signals) ==
    [reddit_id |-> reddit_id, subreddit |-> subreddit,
     candidate_type |-> "comment", post_id |-> "t1", thread |-> "t1",
     priority |-> "NORMAL", quality_score |-> Score(0), signals |-> signals]

\* raw weights a configuration may carry, in hundredths
RawWeights == {0, 15, 20}

InitScore ==
    /\ EmptyDb
    /\ Agents
    /\ client = FreshClient(DEFAULT_RISK_THRESHOLD)
    /\ \E weights \in [Factors -> RawWeights], signals \in SignalProfiles,
          enabled \in BOOLEAN :
        /\ settings = [DefaultSettings EXCEPT
                            !.weights = weights,
                            !.quality_scoring_enabled = enabled]
        /\ run = [NewRun EXCEPT
                    !.pc = "score_candidates",
                    !.candidates = <<Unscored("c1", "sub_a", signals)>>]

\* the scoring stage on its own, over the weights and candidates above
SpecScore == InitScore /\ [][ScoreCandidates]_vars

(***************************************************************************)
(* Properties                                                              *)
(***************************************************************************)
LegalEdges ==
    {<<"PENDING", "APPROVED">>, <<"PENDING", "REJECTED">>,
     <<"APPROVED", "PUBLISHED">>}

\* a step that is a call of update_draft_status
UpdateStep ==
    /\ ret'.op = "update_draft_status"
    /\ ret' # ret \/ draft_queue' # draft_queue

\* C1: update_draft_status returns False and leaves the draft (status,
\* approved_at, token hash) unchanged for an unknown draft id and for every
\* target that is not an allowed successor of the draft's status; for an
\* allowed successor it returns True and the draft takes the target status,
\* so PENDING -> APPROVED -> PUBLISHED succeeds in that order.
StateMachineLegality ==
    [][UpdateStep =>
        LET d == ret'.draft_id
            X == ret'.status
        IN IF draft_queue[d] = NULL
           THEN ret'.val = "False" /\ UNCHANGED dbvars
           ELSE IF <<draft_queue[d].status, X>> \notin LegalEdges
           THEN ret'.val = "False" /\ UNCHANGED dbvars
           ELSE /\ ret'.val = "True"
                /\ draft_queue'[d].status = X
                /\ \A e \in DraftIds \ {d} : draft_queue'[e] = draft_queue[e]
      ]_vars

\* a PUBLISHED draft (approved, then published) has just refused a transition
StateMachineLegalityWitness ==
    /\ ret.op = "update_draft_status"
    /\ ret.val = "False"
    /\ draft_queue[ret.draft_id] # NULL
    /\ draft_queue[ret.draft_id].status = "PUBLISHED"
    /\ draft_queue[ret.draft_id].approved_at # NoTime
    /\ ret.status \in Statuses

\* C2: a draft is created PENDING, its status only ever moves along
\* PENDING -> APPROVED -> PUBLISHED or PENDING -> REJECTED, a stored draft is
\* never removed, and REJECTED and PUBLISHED are never left.
StatusMovesForward ==
    [][\A d \in DraftIds :
        IF draft_queue[d] = NULL
        THEN draft_queue'[d] # NULL => draft_queue'[d].status = "PENDING"
        ELSE /\ draft_queue'[d] # NULL
             /\ \/ draft_queue'[d].status = draft_queue[d].status
                \/ <<draft_queue[d].status, draft_queue'[d].status>> \in LegalEdges
      ]_vars

\* one draft was rejected, another was approved by link and published by
\* the background task, and a further publish of it has been attempted
StatusMovesForwardWitness ==
    /\ \E d \in ExistingDrafts : draft_queue[d].status = "REJECTED"
    /\ ret.op = "publish_single"
    /\ draft_queue[ret.draft_id].status = "PUBLISHED"
    /\ performance_history[ret.draft_id] = "PUBLISHED"

\* a step that is a call of save_draft
SaveStep ==
    /\ ret'.op = "save_draft"
    /\ ret' # ret \/ draft_queue' # draft_queue

DraftsOf(queue, reddit_id) ==
    {d \in DraftIds : queue[d] # NULL /\ queue[d].reddit_id = reddit_id}

\* C3: save_draft is idempotent on reddit_id: a call for an identity that
\* has no draft stores one PENDING draft and returns its plaintext token; a
\* call for an identity that already has a draft returns None and leaves the
\* whole queue as it was; so there is never more than one draft per identity.
IdempotentAdmission ==
    [][SaveStep =>
        LET r == ret'.reddit_id IN
        /\ Cardinality(DraftsOf(draft_queue', r)) = 1
        /\ IF DraftsOf(draft_queue, r) = {}
           THEN /\ ret'.val = "token"
                /\ ret'.token \in Tokens
                /\ DraftsOf(draft_queue', r) = {ret'.draft_id}
                /\ draft_queue'[ret'.draft_id].content = ContentOf[ret'.draft_id]
           ELSE /\ ret'.val = None
                /\ draft_queue' = draft_queue
      ]_vars

\* a second save_draft for an identity, with another draft id and another
\* content, has just been skipped
IdempotentAdmissionWitness ==
    /\ ret.op = "save_draft"
    /\ ret.val = None
    /\ draft_queue[ret.draft_id] = NULL
    /\ \E d \in DraftsOf(draft_queue, ret.reddit_id) :
            /\ d # ret.draft_id
            /\ draft_queue[d].content # ContentOf[ret.draft_id]

\* the plaintext token that save_draft handed out for a stored draft
PlaintextOf(d) == draft_queue[d].approve_url

Resolved(d) == draft_queue[d].status \in {"APPROVED", "REJECTED", "PUBLISHED"}

\* C4: approval tokens are single-use: once a draft has left PENDING its
\* stored token hash is cleared, and in every later state a lookup with the
\* draft's plaintext token finds nothing.
TokenSingleUse ==
    \A d \in ExistingDrafts :
        Resolved(d) =>
            /\ draft_queue[d].approval_token_hash = NULL
            /\ get_draft_by_token(PlaintextOf(d)) = None
            /\ ret.op = "get_draft_by_token" /\ ret.token = PlaintextOf(d)
                    => ret.val = None

\* a lookup with the token of an approved draft, made inside the validity
\* window, has returned None
TokenSingleUseWitness ==
    /\ ret.op = "get_draft_by_token"
    /\ ret.val = None
    /\ \E d \in ExistingDrafts :
            /\ ret.token = PlaintextOf(d)
            /\ draft_queue[d].status = "APPROVED"
            /\ now - draft_queue[d].created_at <= TOKEN_TTL_HOURS * MinutesPerHour

\* a step that is a call of get_draft_by_token
LookupStep ==
    /\ ret'.op = "get_draft_by_token"
    /\ ret' # ret

\* the draft d answers a lookup with the token t at the present instant
ValidFor(d, t) ==
    /\ draft_queue[d] # NULL
    /\ t \in Tokens
    /\ draft_queue[d].approve_url = t
    /\ draft_queue[d].approval_token_hash # NULL
    /\ draft_queue[d].status = "PENDING"
    /\ now - draft_queue[d].created_at <= 48 * 60

\* C5: get_draft_by_token returns a draft only if the token is the one the
\* draft's stored hash was made from, the draft is PENDING and it was created
\* at most 48 hours before the lookup; in every other case (wrong, expired,
\* resolved, empty or short token) it returns None; it changes no state.
TokenLookupGuard ==
    [][LookupStep =>
        /\ UNCHANGED <<agents, engagement, pipeline, now, dbvars, client, background_tasks>>
        /\ IF \E d \in DraftIds : ValidFor(d, ret'.token)
           THEN ret'.val \in DraftIds /\ ValidFor(ret'.val, ret'.token)
           ELSE ret'.val = None
      ]_vars

\* a lookup with the right token of a PENDING draft, made after the validity
\* window, has returned None
TokenLookupGuardWitness ==
    /\ ret.op = "get_draft_by_token"
    /\ ret.val = None
    /\ \E d \in ExistingDrafts :
            /\ ret.token = PlaintextOf(d)
            /\ draft_queue[d].status = "PENDING"
            /\ draft_queue[d].approval_token_hash = hash_token(ret.token)
            /\ now - draft_queue[d].created_at > TOKEN_TTL_HOURS * MinutesPerHour

FailedAt(r) ==
    IF replied_items[r] # NULL /\ replied_items[r].status = "FAILED"
    THEN replied_items[r].last_attempt
    ELSE NoTime

\* is_retryable has just been asked about r, at the present instant
AskedNow(r) ==
    /\ ret.op = "is_retryable"
    /\ ret.reddit_id = r
    /\ ret.at = now

\* C6: a FAILED record of a high-priority (inbox) item whose last attempt
\* was at T is not retryable at T + 5h59m and is retryable at T + 6h01m.
InboxCooldown ==
    \A r \in InboxIds :
        FailedAt(r) # NoTime =>
            /\ now - FailedAt(r) = 5 * 60 + 59 =>
                    /\ ~is_retryable(r)
                    /\ AskedNow(r) => ret.val = "False"
            /\ now - FailedAt(r) = 6 * 60 + 1 =>
                    /\ is_retryable(r)
                    /\ AskedNow(r) => ret.val = "True"

SuccessIsPermanent ==
    [][\A r \in RedditIds :
        replied_items[r] # NULL /\ replied_items[r].status = "SUCCESS"
            => replied_items'[r] # NULL /\ replied_items'[r].status = "SUCCESS"
      ]_vars

\* every request the client has counted was answered 403, MaxRequests of them
AllForbidden ==
    /\ client.total_requests = MaxRequests
    /\ client.error_403 = client.total_requests

\* C9: from a fresh client with the default threshold 0.7, a long enough
\* run of calls that all fail with 403 puts the risk above the threshold, and
\* the next guarded call (fetch_inbox_replies, fetch_rising_posts,
\* post_comment) raises SafetyLockoutException and issues no request.
KillSwitchTrips ==
    client.risk_threshold = DEFAULT_RISK_THRESHOLD /\ AllForbidden =>
        /\ RiskExceeded(client)
        /\ \A outcome \in FailureOutcomes \cup {"ok"} :
                /\ fetch_inbox_replies(client, outcome).val
                        = "SafetyLockoutException"
                /\ fetch_inbox_replies(client, outcome).upstream = 0
        /\ \A outcome \in PostOutcomes :
                /\ post_comment(client, FALSE, outcome).val
                        = "SafetyLockoutException"
                /\ post_comment(client, FALSE, outcome).upstream = 0
        /\ \A subreddit \in Subreddits, outcome \in ListingOutcomes :
                client.rising_posts_cache[subreddit] = NotCached =>
                    /\ fetch_rising_posts(client, subreddit, outcome).val
                            = "SafetyLockoutException"
                    /\ fetch_rising_posts(client, subreddit, outcome).upstream = 0

\* C10: every client operation that issues an upstream request first
\* evaluates both the quota check and the risk check, and issues no request
\* when either check fails.
ChecksBeforeUpstream ==
    [][RateLimited(client) \/ RiskExceeded(client) => ret'.upstream = 0]_vars

GuardedOps ==
    {"fetch_inbox_replies", "fetch_rising_posts", "post_comment",
     "get_comment_context", "get_post_context"}

\* the call of this step is refused with the quota signal: nothing is
\* requested and the client is left as it was
RefusedForQuota ==
    /\ ret'.val = "RateLimitExceeded"
    /\ ret'.upstream = 0
    /\ client' = client

\* the call of this step is a fetch_rising_posts served from the cache
CacheHit ==
    /\ ret'.op = "fetch_rising_posts"
    /\ client.rising_posts_cache[ret'.subreddit] # NotCached

\* C12 as stated: whenever the remaining-quota counter is <= 0, every
\* guarded client call raises RateLimitExceeded and issues no upstream
\* request, even when the risk is also above threshold; while the counter is
\* > 0 the quota check never raises.
QuotaRefusesEveryCall ==
    [][ret'.op \in GuardedOps =>
          /\ RateLimited(client) => RefusedForQuota
          /\ ~RateLimited(client) => ret'.val # "RateLimitExceeded"
      ]_vars

\* C12 amended: whenever the remaining-quota counter is <= 0, every guarded
\* client call other than a fetch_rising_posts cache hit raises
\* RateLimitExceeded and issues no upstream request, even when the risk is
\* also above threshold; a cache hit returns the cached listing and issues no
\* request; while the counter is > 0 the quota check never raises.
QuotaRefusal ==
    [][ret'.op \in GuardedOps =>
          /\ RateLimited(client) /\ ~CacheHit => RefusedForQuota
          /\ CacheHit => ret'.val = "cached" /\ ret'.upstream = 0
          /\ ~RateLimited(client) => ret'.val # "RateLimitExceeded"
      ]_vars

\* post_comment has just been refused for quota while the risk is above the
\* threshold as well
QuotaRefusalWitness ==
    /\ ret.op = "post_comment"
    /\ ret.val = "RateLimitExceeded"
    /\ RateLimited(client)
    /\ RiskExceeded(client)

\* C18: in every reachable state no persisted field of a draft row contains
\* or reveals the plaintext approval token; save_draft persists only the
\* token's hash and hands the plaintext to its caller.
OnlyHashPersisted ==
    \A d \in ExistingDrafts : draft_queue[d].approve_url \notin Tokens

\* the diversity stage has just returned run.candidates for ret.input
Diversified == ret.op = "diversity_select"

\* the number of candidates of candidates[i]'s subreddit before position i
AdmittedBefore(candidates, i) ==
    Cardinality({j \in 1..(i - 1) :
                    candidates[j].subreddit = candidates[i].subreddit})

\* C13: a candidate of a partition that already has max_per_subreddit
\* admitted candidates is admitted only if its score exceeds the
\* quality-boost threshold, so every admitted candidate beyond the first K
\* of its partition has a score above the threshold; five same-partition
\* candidates with scores 0.9 .. 0.5, K = 2 and threshold 0.95 yield exactly
\* the top two.
DiversityCap ==
    Diversified =>
        /\ \A i \in 1..Len(run.candidates) :
                AdmittedBefore(run.candidates, i) >= settings.max_per_subreddit
                    => BoostAllowed_strict(
                            run.candidates[i].quality_score,
                            settings.diversity_quality_boost_threshold)
        /\ ret.input = DiversityExample
                /\ settings.max_per_subreddit = 2
                /\ settings.diversity_quality_boost_threshold = 950
            => run.candidates = SubSeq(DiversityExample, 1, 2)

\* C14: the output of the diversity stage never contains two candidates of
\* the same underlying thread, a post together with a comment on that post
\* included.
OnePerThread ==
    Diversified =>
        \A i, j \in 1..Len(run.candidates) :
            i # j => run.candidates[i].thread # run.candidates[j].thread

\* the scorer has just scored run.candidates
Scored == ret.op = "score_candidates" /\ settings.quality_scoring_enabled

\* C16: for any candidate and any configured raw weights the composite
\* score lies in [0,1], and the seven normalized weights (raw weight over
\* total_weight) sum to 1 whatever the raw weights sum to; seven raw weights
\* of 0.2 normalize to 1/7 each.
ScoreBounds ==
    Scored =>
        /\ \A i \in 1..Len(run.candidates) :
                /\ 0 <= run.candidates[i].quality_score.num
                /\ run.candidates[i].quality_score.num
                        <= run.candidates[i].quality_score.den
        /\ Weighted(settings.weights, Ones) = total_weight(settings.weights)
        /\ (\A f \in Factors : settings.weights[f] = 20) =>
                \A f \in Factors :
                    7 * settings.weights[f] = total_weight(settings.weights)

\* C11: once a guarded client call has raised SafetyLockoutException in a
\* run, the run attempts no further upstream request, dispatches no
\* candidate, and ends with a run-level error.
KillSwitchAbortsRun ==
    run.log.tripped =>
        /\ run.log.after_trip = 0
        /\ run.log.dispatched = <<>>
        /\ run.pc = "done" => run.result.error_count > 0

\* C15: in a run that starts with the day's count at max_daily, no candidate
\* is dispatched (no context build, no generation, no draft, no notification)
\* and the run completes with processed_count = 0 and no errors.
DispatchNodes ==
    {"select_candidate", "build_context", "generate_draft", "notify_human"}

DailyCapEndToEnd ==
    get_daily_count(daily_stats) = max_daily =>
        /\ run.pc \notin DispatchNodes
        /\ run.log.dispatched = <<>>
        /\ run.context = None /\ run.draft = NULL
        /\ ExistingDrafts = {}
        /\ run.log.notified = 0
        /\ run.pc = "done" =>
                /\ run.result.processed_count = 0
                /\ run.result.errors = <<>>

\* a run that had admitted candidates and ended at the daily gate
DailyCapEndToEndWitness ==
    /\ get_daily_count(daily_stats) = max_daily
    /\ run.pc = "done"
    /\ run.log.gate_closed
    /\ Len(run.log.admitted) > 1
    /\ run.errors = <<>>

\* C17: when notify_human_node has finished for a draft, either the draft's
\* DraftRecord and its PENDING PerformanceRecord both exist or neither does.
PairedRecords ==
    (ret.op = "notify_human" /\ ret.draft_id # None) =>
        \/ /\ draft_queue[ret.draft_id] # NULL
           /\ performance_history[ret.draft_id] = "PENDING"
        \/ /\ draft_queue[ret.draft_id] = NULL
           /\ performance_history[ret.draft_id] = None

\* C19: when context building, generation, draft saving or notification
\* raises for a dispatched candidate, the error is appended to the run's
\* errors and the run does not stop; unless the daily gate closed or the
\* per-run cap was reached, a finished run has dispatched every admitted
\* candidate.
DispatchFailed(r) ==
    \/ r.op = "build_context" /\ r.val \in {"Exception", "RateLimitExceeded"}
    \/ r.op = "generate_draft" /\ r.val = "error"
    \/ r.op = "notify_human" /\ r.val = "Notification failed"

AllDispatched ==
    /\ Len(run.log.dispatched) = Len(run.log.admitted)
    /\ \A i \in 1..Len(run.log.admitted) :
            run.log.dispatched[i] = run.log.admitted[i].reddit_id

FaultIsolation ==
    /\ [][DispatchFailed(ret') =>
            /\ Len(run'.errors) = Len(run.errors) + 1
            /\ run'.pc # "done"]_vars
    /\ [](run.pc = "done" =>
            \/ AllDispatched
            \/ run.log.gate_closed
            \/ run.processed_count >= settings.max_comments_per_run)

\* a candidate is dispatched after a step of an earlier candidate raised
FaultIsolationWitness ==
    /\ ret.op = "select_candidate"
    /\ run.pc = "build_context"
    /\ run.log.failed > 0
    /\ Len(run.errors) >= run.log.failed

\* C20: a run saves at most max_per_run drafts, and dispatches no candidate
\* once processed_count has reached max_per_run or check_daily_limit_node
\* has found the day's count at or above max_daily.
RunCaps ==
    /\ run.log.enqueued <= settings.max_comments_per_run
    /\ Cardinality(ExistingDrafts) <= settings.max_comments_per_run
    /\ Len(run.log.dispatched) <= settings.max_comments_per_run
    /\ run.log.late = 0
    /\ run.log.gate_closed => run.pc = "done"

\* the run stopped by the per-run cap with as many drafts saved
RunCapsWitness ==
    /\ run.pc = "done"
    /\ ret.op = "notify_human"
    /\ run.processed_count = settings.max_comments_per_run
    /\ run.log.enqueued = settings.max_comments_per_run

\* C21: an identity whose replay record is SUCCESS does not pass the run's
\* filter, a PUBLISHED draft is not among the approved drafts, and no
\* publish_single of a draft that is already PUBLISHED posts a comment.
PostedAgain ==
    /\ ret'.op = "publish_single"
    /\ draft_queue[ret'.draft_id] # NULL
    /\ draft_queue[ret'.draft_id].status = "PUBLISHED"
    /\ ret'.val = "success"
    /\ ret'.upstream > 0

NeverReprocessed ==
    /\ [][~PostedAgain]_vars
    /\ [](\A d \in ApprovedDrafts : draft_queue[d].status # "PUBLISHED")
    /\ [](\A reddit_id \in LedgerIds :
            has_replied(reddit_id) =>
                ~PassesFilter([reddit_id |-> reddit_id]))

\* C22: the engagement checker touches only drafts that are PUBLISHED,
\* unchecked, carry a comment id and were published longer ago than the
\* observation delay; it changes only the engagement columns of their
\* performance rows and their engagement_checked flag, and never a status,
\* a token hash, a replay record or the daily count.
PastDelay(draft) ==
    /\ draft.status = "PUBLISHED"
    /\ ~draft.engagement_checked
    /\ draft.comment_id # None
    /\ draft.published_at # NoTime
    /\ now - draft.published_at > engagement_check_delay_hours * MinutesPerHour

EngagementFrame ==
    [][ret'.op = "check_pending_engagements" =>
        /\ \A d \in DraftIds :
            /\ (draft_queue'[d] # draft_queue[d] \/ engagement'[d] # engagement[d])
                    => /\ d \in ExistingDrafts
                       /\ PastDelay(draft_queue[d])
                       /\ d \in ret'.drafts
            /\ d \in ExistingDrafts =>
                    draft_queue'[d] =
                        [draft_queue[d] EXCEPT
                            !.engagement_checked = draft_queue'[d].engagement_checked]
        /\ replied_items' = replied_items
        /\ daily_stats' = daily_stats
        /\ performance_history' = performance_history]_vars

\* a check has stored metrics for a draft and marked it checked
EngagementFrameWitness ==
    /\ ret.op = "check_pending_engagements"
    /\ \E d \in ExistingDrafts :
            /\ draft_queue[d].engagement_checked
            /\ engagement[d] # NULL
            /\ engagement[d].upvotes_24h = 5

\* C23: when the ratio stage selects fewer posts than round(max_per_run x
\* post_ratio) because too few post candidates exist, and a comment candidate
\* is left unselected, max_per_run candidates are selected in total.
SelectedOf(type) ==
    Cardinality({i \in 1..Len(run.candidates) :
                    run.candidates[i].candidate_type = type})

RatioTarget ==
    round(settings.max_comments_per_run * settings.post_reply_ratio, 100)

CommentBackfill ==
    (/\ ret.op = "select_by_ratio"
     /\ SelectedOf("post") < RatioTarget
     /\ Len(run.post_candidates) < RatioTarget
     /\ SelectedOf("comment") < Len(run.comment_candidates))
        => Len(run.candidates) = settings.max_comments_per_run

\* C24: the ratio stage selects at most max_post_replies_per_run posts, at
\* most max_comment_replies_per_run comments and at most max_comments_per_run
\* candidates.
RatioCaps ==
    ret.op = "select_by_ratio" =>
        /\ SelectedOf("post") <= settings.max_post_replies_per_run
        /\ SelectedOf("comment") <= settings.max_comment_replies_per_run
        /\ Len(run.candidates) <= settings.max_comments_per_run

\* the identity of the draft the notify stage is about to save has a
\* DraftRecord already
IdentityHasDraft ==
    /\ run.pc = "notify_human"
    /\ run.draft # NULL
    /\ run.current_candidate # NULL
    /\ \E d \in ExistingDrafts :
            draft_queue[d].reddit_id = run.draft.reddit_id

\* C25: the notifier is invoked with an approval token only in a step that
\* creates the first DraftRecord of the identity, and DraftRecords are never
\* removed; a dispatched candidate whose identity already has a DraftRecord
\* gets no token, no notification, no PerformanceRecord and no processed_count
\* increment, and the run gets no error from it unless the call itself raised.
NotifiedOncePerIdentity ==
    /\ [][ExistingDrafts \subseteq ExistingDrafts']_vars
    /\ [][run'.log.notified > run.log.notified =>
            /\ run.draft # NULL
            /\ ~\E d \in ExistingDrafts :
                    draft_queue[d].reddit_id = run.draft.reddit_id
            /\ \E d \in ExistingDrafts' \ ExistingDrafts :
                    draft_queue'[d].reddit_id = run.draft.reddit_id]_vars
    /\ [][IdentityHasDraft =>
            /\ draft_queue' = draft_queue
            /\ performance_history' = performance_history
            /\ run'.log.notified = run.log.notified
            /\ run'.log.enqueued = run.log.enqueued
            /\ run'.processed_count = run.processed_count
            /\ (ret'.val = "duplicate" => run'.errors = run.errors)]_vars

\* a duplicate was skipped after another draft of the same run was notified
NotifiedOncePerIdentityWitness ==
    /\ ret.op = "notify_human"
    /\ ret.val = "duplicate"
    /\ run.log.notified > 0
    /\ run.errors = <<>>

\* a reply whose stripped content is within the length bounds and carries no
\* banned phrase
PassesFilter_reply(reply) ==
    /\ ~reply.raises
    /\ reply.text >= min_length
    /\ reply.text <= max_length
    /\ ~reply.banned

FilterFailure(reply) == ~reply.raises /\ ~PassesFilter_reply(reply)

\* C26: generate invokes the model at most max_retries times; a returned
\* draft is built from the first reply that passes validation; after
\* max_retries consecutive filter failures the call raises ContentFilterError.
GenerateRetries ==
    ret.op = "generate" =>
        LET invoked == generator.invoked
            n == Len(invoked)
        IN  /\ n <= generator.max_retries
            /\ generator.val = "Draft" =>
                    /\ n >= 1
                    /\ PassesFilter_reply(invoked[n])
                    /\ \A i \in 1..(n - 1) : FilterFailure(invoked[i])
                    /\ generator.draft.text = invoked[n].text
                    /\ generator.draft.banned = invoked[n].banned
            /\ generator.val # "Draft" => generator.draft = NULL
            /\ (n = generator.max_retries
                    /\ \A i \in 1..n : FilterFailure(invoked[i]))
                    <=> generator.val = "ContentFilterError"

\* a draft from the last permitted attempt, after filter failures of each kind
GenerateRetriesWitness ==
    /\ ret.op = "generate"
    /\ generator.val = "Draft"
    /\ generator.max_retries = max_retries
    /\ Len(generator.invoked) = max_retries
    /\ generator.invoked[1].banned
    /\ generator.invoked[2].text < min_length

\* the retries are used up
GenerateExhaustedWitness ==
    /\ ret.op = "generate"
    /\ generator.val = "ContentFilterError"
    /\ Len(generator.invoked) = max_retries

\* the cache holds an entry for the subreddit that is younger than the
\* maximum age
YoungEntry(subreddit) ==
    /\ rule_engine.cache[subreddit] # NULL
    /\ now - rule_engine.cache[subreddit].timestamp
            < max_age_hours * MinutesPerHour

\* C27: check_compliance fetches rules only when the cache holds no entry
\* younger than the maximum age for the subreddit; with such an entry it makes
\* no fetch and returns False exactly when the cached status is RESTRICTED.
CacheFirst ==
    [][ret'.op = "check_compliance" /\ rule_engine' # rule_engine
            => ret'.upstream = 1]_vars
    /\ [][(ret'.op = "check_compliance" /\ now' = now) =>
            /\ ret'.upstream > 0 => ~YoungEntry(ret'.subreddit)
            /\ YoungEntry(ret'.subreddit) =>
                /\ ret'.upstream = 0
                /\ rule_engine' = rule_engine
                /\ ret'.val = "False" <=>
                    rule_engine.cache[ret'.subreddit].status
                        = "RESTRICTED"]_vars

\* a fresh RESTRICTED entry, stored by an earlier fetch, answered the call
CacheFirstWitness ==
    /\ ret.op = "check_compliance"
    /\ ret.val = "False"
    /\ ret.upstream = 0
    /\ rule_engine.fetch_rules_fn
    /\ now > 0
    /\ YoungEntry(ret.subreddit)
    /\ rule_engine.cache[ret.subreddit].timestamp > 0

\* the texts of the exceptions that the parent fetch and post_comment raise
PublishErrors ==
    {"parent_error", "Forbidden403", "Exception", "RateLimitExceeded",
     "SafetyLockoutException"}

\* C28: when fetching the parent or posting the comment raises, publish_single
\* returns a failed result with the error text, the identity's ReplayRecord
\* is FAILED, the draft keeps its status and the daily counter is unchanged.
PublishFailureHandled ==
    [][(ret'.op = "publish_single" /\ background_tasks' # background_tasks
            /\ ret'.val \notin {"success", "Daily limit reached"}) =>
        LET draft_id == ret'.draft_id
            reddit_id == draft_queue[draft_id].reddit_id
        IN  /\ ret'.val = "failed"
            /\ ret'.error \in PublishErrors
            /\ replied_items'[reddit_id] # NULL
            /\ replied_items'[reddit_id].status = "FAILED"
            /\ draft_queue' = draft_queue
            /\ daily_stats' = daily_stats
            /\ performance_history' = performance_history]_vars

\* a post refused upstream for an APPROVED draft after one request
PublishFailureHandledWitness ==
    /\ ret.op = "publish_single"
    /\ ret.val = "failed"
    /\ ret.error = "Forbidden403"
    /\ ret.upstream = 1
    /\ draft_queue[ret.draft_id].status = "APPROVED"
    /\ replied_items[draft_queue[ret.draft_id].reddit_id].status = "FAILED"

\* C29: with the daily counter at or above max_daily, publish_single issues
\* no upstream request, changes no durable state and returns a failed result
\* with error "Daily limit reached".
DailyLimitBlocksPublish ==
    [][(ret'.op = "publish_single" /\ background_tasks' # background_tasks
            /\ get_daily_count(daily_stats) >= max_daily) =>
        /\ ret'.upstream = 0
        /\ ret'.val # "success"
        /\ ret'.error = "Daily limit reached"
        /\ dbvars' = dbvars
        /\ client' = client]_vars

\* an APPROVED draft stopped by the limit
DailyLimitBlocksPublishWitness ==
    /\ ret.op = "publish_single"
    /\ ret.error = "Daily limit reached"
    /\ get_daily_count(daily_stats) >= max_daily
    /\ draft_queue[ret.draft_id].status = "APPROVED"
    /\ replied_items[draft_queue[ret.draft_id].reddit_id] = NULL

\* C30: in the order the sort stage produces, every HIGH-priority candidate
\* precedes every NORMAL-priority candidate, whether or not the exploration
\* shuffle of the top-N window fires.
HighBeforeNormal ==
    ret.op = "sort_by_score" =>
        \A i, j \in 1..Len(run.candidates) :
            i < j => ~(/\ run.candidates[i].priority = "NORMAL"
                       /\ run.candidates[j].priority = "HIGH")

Cached(c) == {s \in Subreddits : c.rising_posts_cache[s] # NotCached}

\* C31: within a run, a fetch_rising_posts call for a subreddit whose listing
\* has been fetched (also an empty one) returns the cached list without an
\* upstream request; a completed fetch is cached and nothing but the start of
\* a run removes an entry, so a listing is fetched at most once per run; the
\* rising posts a run turns into candidates come from listings of that run.
ListingCachedPerRun ==
    /\ [][(ret'.op = "fetch_rising_posts" /\ run' = run) =>
            LET s == ret'.subreddit
            IN  /\ s \in Cached(client) =>
                    /\ ret'.val = "cached"
                    /\ ret'.upstream = 0
                    /\ client' = client
                /\ ret'.val = "ok" =>
                    /\ s \notin Cached(client)
                    /\ s \in Cached(client')
                    /\ ret'.upstream = 1
                /\ \A t \in Cached(client) :
                        client'.rising_posts_cache[t]
                            = client.rising_posts_cache[t]]_vars
    /\ [][run.pc = "fetch_candidates" =>
            \A i \in 1..Len(run'.post_candidates) :
                ret'.post_listing[run'.post_candidates[i].subreddit]
                    = "posts"]_vars

\* an empty listing fetched by the fetch stage is served again from the cache
ListingCachedPerRunWitness ==
    /\ ret.op = "fetch_rising_posts"
    /\ ret.val = "cached"
    /\ run.pc # "fetch_candidates"
    /\ client.rising_posts_cache[ret.subreddit] = 0

\* the identity's last publish attempt failed and its cooldown has not elapsed
InCooldown(reddit_id) ==
    /\ replied_items[reddit_id] # NULL
    /\ replied_items[reddit_id].status = "FAILED"
    /\ now < replied_items[reddit_id].last_attempt
                + CooldownHoursFor(replied_items[reddit_id]) * MinutesPerHour

\* C32: after a failed publish attempt for an identity, no publisher makes an
\* upstream post attempt for that identity before the cooldown has elapsed.
NoPostInCooldown ==
    [][(ret'.op = "publish_single" /\ background_tasks' # background_tasks
            /\ ret'.upstream > 0)
        => ~InCooldown(draft_queue[ret'.draft_id].reddit_id)]_vars

\* the nodes of the dispatch loop
LoopNodes ==
    {"check_daily_limit", "select_candidate", "build_context",
     "generate_draft", "notify_human"}

\* C33: every run terminates; a loop iteration removes exactly one candidate
\* from the admitted list, no node of the loop adds one, and a run that has
\* ended has an empty list, has reached the per-run cap or found the daily
\* gate closed, whatever steps failed.
RunTerminates ==
    /\ <>(run.pc = "done")
    /\ [][run.pc \in LoopNodes =>
            Len(run'.candidates) =
                IF run.pc = "select_candidate" /\ run.candidates # <<>>
                THEN Len(run.candidates) - 1
                ELSE Len(run.candidates)]_vars
    /\ [](run.pc = "done" =>
            \/ run.candidates = <<>>
            \/ run.processed_count >= settings.max_comments_per_run
            \/ ~can_post_today(daily_stats))

\* a run that ended with an empty list after three dispatches that all failed
RunTerminatesWitness ==
    /\ run.pc = "done"
    /\ Len(run.log.dispatched) = MaxCandidates
    /\ run.log.failed = MaxCandidates
    /\ run.candidates = <<>>

\* C34: the RunResult of a finished run reports processed_count equal to the
\* number of drafts enqueued during the run and an error list holding every
\* error a node recorded, so the run command exits 0 exactly when no node
\* recorded an error, whichever node ran last.
RunResultFaithful ==
    run.pc = "done" =>
        /\ run.result.processed_count = run.log.enqueued
        /\ run.result.errors = run.errors
        /\ run.result.error_count = 0 <=> run.errors = <<>>

\* C35: at most one comment is ever posted upstream for a draft: no publisher
\* posts for a draft that already stores the id of a comment posted for it.
OnePostPerDraft ==
    [][~(/\ ret'.op = "publish_single"
         /\ background_tasks' # background_tasks
         /\ ret'.upstream > 0
         /\ ret'.val = "success"
         /\ draft_queue[ret'.draft_id].comment_id # None)]_vars

\* C36: the number of non-dry-run comments posted upstream on one calendar
\* day never exceeds max_daily, also when two publishers interleave their
\* steps or a write between the post and the counter increment fails.
PostsWithinDailyLimit == publishers.posted <= max_daily

\* C37: in every state of the client, the 403 count plus the empty-listing
\* count is at most the total-request count, and so the computed risk
\* 0.6 * forbidden / total + 0.4 * empty / total never exceeds 0.6.
ErrorsWithinRequests ==
    /\ client.error_403 + client.empty_listing <= client.total_requests
    /\ RiskTimesTotal(client) <= error_403_weight * client.total_requests

\* both kinds of error have been recorded
ErrorsWithinRequestsWitness ==
    /\ client.error_403 > 0
    /\ client.empty_listing > 0
    /\ client.error_403 + client.empty_listing < client.total_requests

\* every counted request was answered 403: the risk is exactly 0.6
RiskAtItsMaximum ==
    /\ client.total_requests > 1
    /\ client.error_403 = client.total_requests
    /\ RiskTimesTotal(client) = error_403_weight * client.total_requests

\* C38: for every draft the pipeline has created, the stored token hash is
\* non-null only while the status is PENDING, and a draft that is APPROVED
\* or PUBLISHED has approved_at set.
TokenAndApprovalFields ==
    \A d \in ExistingDrafts :
        /\ draft_queue[d].approval_token_hash # NULL
                => draft_queue[d].status = "PENDING"
        /\ draft_queue[d].status \in {"APPROVED", "PUBLISHED"}
                => draft_queue[d].approved_at # NoTime

\* a pending draft with its hash next to a published one
TokenAndApprovalFieldsWitness ==
    /\ \E d \in ExistingDrafts :
            /\ draft_queue[d].status = "PENDING"
            /\ draft_queue[d].approval_token_hash # NULL
    /\ \E d \in ExistingDrafts :
            /\ draft_queue[d].status = "PUBLISHED"
            /\ draft_queue[d].approval_token_hash = NULL
            /\ draft_queue[d].approved_at # NoTime

\* a fetched candidate that the filter and the rule check let through
Eligible(candidate) == PassesFilter(candidate) /\ Compliant(candidate)

EligibleFetched ==
    \/ \E i \in DOMAIN run.post_candidates : Eligible(run.post_candidates[i])
    \/ \E i \in DOMAIN run.comment_candidates :
            Eligible(run.comment_candidates[i])

\* C39: a finished run whose fetched pools hold at least one eligible
\* candidate, with neither the daily cap nor the per-run cap reached, has
\* dispatched at least one candidate: ineligible candidates at the head of
\* a pool do not use up the ratio slots.
EligibleIsDispatched ==
    (/\ run.pc = "done"
     /\ EligibleFetched
     /\ can_post_today(daily_stats)
     /\ run.processed_count < max_comments_per_run)
        => run.log.dispatched # <<>>

\* C40: a draft's status becomes PUBLISHED, and its identity's replay record
\* SUCCESS, only after a comment has been posted upstream for that draft; a
\* dry-run publish, which posts nothing, leaves the draft APPROVED and
\* creates no SUCCESS record.
PublishedOnlyAfterPost ==
    [][ret'.op = "publish_single" /\ background_tasks' # background_tasks =>
        LET d == ret'.draft_id
            reddit_id == draft_queue[d].reddit_id
        IN  /\ (draft_queue[d].status # "PUBLISHED"
                    /\ draft_queue'[d].status = "PUBLISHED")
                => ret'.upstream > 0
            /\ (replied_items[reddit_id] # replied_items'[reddit_id]
                    /\ replied_items'[reddit_id].status = "SUCCESS")
                => ret'.upstream > 0
      ]_vars

====
